---- MODULE Spec2Model ----
(***************************************************************************)
(* Job / report lifecycle of the simulation-report service: the service    *)
(* methods of SimulationService and ReportService, the blob store they     *)
(* write to, and the Celery tasks that drive a job through its statuses.   *)
(* Every service method is one database transaction and is one step here;  *)
(* a task is a process that takes one step per service call it makes, so   *)
(* API calls and other workers interleave between those calls.             *)
(***************************************************************************)
EXTENDS Integers, Sequences, FiniteSets, TLC

(* ---------------------------------------------------------------- bounds *)
MaxJobs == 2
MaxReports == 1
MaxClock == 2
MaxRedeliver == 1
MaxDeliveries == 2
MaxProgressCalls == 1
MaxTaskDeliveries == 5
MaxCalls == 3
MaxLimit == 2
MaxOffset == 2

(* ----------------------------------------------------- program constants *)
max_retries == 3
PARAMETERS_SIZE_THRESHOLD == 102400
PRESIGNED_URL_EXPIRY == 3600

(* ------------------------------------------------------------ the values *)
Users == {"u1", "u2"}
JobIds == 1..MaxJobs
ReportIds == 1..MaxReports
Workers == {"w1", "w2"}
SimTypes == {"monte_carlo"}

\* Python's None for numeric / timestamp columns, string columns and keys.
NULL == -1
NullStr == "None"
NoKey == <<>>

\* SimulationStatus
PENDING == "PENDING"
RUNNING == "RUNNING"
COMPLETED == "COMPLETED"
FAILED == "FAILED"
CANCELLED == "CANCELLED"
SimulationStatus == {PENDING, RUNNING, COMPLETED, FAILED, CANCELLED}

\* ReportStatus (PENDING, COMPLETED and FAILED are spelled as for jobs)
GENERATING == "GENERATING"
ReportStatus == {PENDING, GENERATING, COMPLETED, FAILED}

\* progress is Numeric(5, 4): kept in ten-thousandths, 1.0 is 10000.
ProgressOne == 10000
ProgressValues == {5000}

\* A JSON document {"value": n, "pad": "x" * pad}.
Doc(v, p) == [value |-> v, pad |-> p]
\* The submitted parameters: a document one byte over the placement threshold.
ParamDocs == {Doc(1, PARAMETERS_SIZE_THRESHOLD - 4)}
\* Documents one byte under, exactly at, and one byte over the threshold.
BoundaryDocs == {Doc(1, PARAMETERS_SIZE_THRESHOLD - 6),
                 Doc(1, PARAMETERS_SIZE_THRESHOLD - 5),
                 Doc(1, PARAMETERS_SIZE_THRESHOLD - 4)}
ResultDocs == {Doc(1, 0), Doc(2, 0)}
Placeholder == [_s3_reference |-> TRUE]
EmptyDict == [k \in {} |-> NULL]
ErrorMessages == {"boom"}

(* ------------------------------------------------------------- json codec *)
\* json.dumps(d).encode("utf-8"): the structural tokens, and the run of pad
\* characters kept as its length; of a Doc, or of the default handler's result,
\* which holds a Doc under "input_parameters".
json_dumps(d) ==
    IF "pad" \in DOMAIN d
    THEN [tokens |-> <<"{", "value", d.value, "pad", "}">>, fill |-> d.pad]
    ELSE [tokens |-> <<"{", "simulation_type", d.simulation_type,
                       "input_parameters", "{", "value", d.input_parameters.value,
                       "pad", "}", "output", d.output, "metrics", d.metrics, "}">>,
          fill |-> d.input_parameters.pad]
\* json.loads(bytes.decode("utf-8"))
json_loads(s) ==
    IF s.tokens[2] = "value"
    THEN [value |-> s.tokens[3], pad |-> s.fill]
    ELSE [simulation_type |-> s.tokens[3],
          input_parameters |-> [value |-> s.tokens[7], pad |-> s.fill],
          output |-> s.tokens[11], metrics |-> s.tokens[13]]
\* len(bytes)
ByteLen(s) == Len(s.tokens) + s.fill

(* -------------------------------------------------------------- blob store *)
\* build_simulation_key that leaves the job id out of the key.
build_simulation_key_perUser(user_id, job_id, filename) == <<"simulations", user_id, filename>>
build_simulation_key(user_id, job_id, filename) ==
    <<"simulations", user_id, job_id, filename>>
build_report_key(user_id, report_id, filename) ==
    <<"reports", user_id, report_id, filename>>

\* The store is a function from the keys written so far to the bytes stored.
upload_json(B, key, data) == [k \in DOMAIN B \cup {key} |->
                                 IF k = key THEN json_dumps(data) ELSE B[k]]
download_json(B, key) == json_loads(B[key])
get_object_size(B, key) == IF key \in DOMAIN B THEN ByteLen(B[key]) ELSE NULL
exists(B, key) == key \in DOMAIN B

\* s3_client.delete_object: S3 removes the object if there is one and answers
\* success whether or not there was one.
delete_object(B, key) == [k \in DOMAIN B \ {key} |-> B[k]]
\* delete: True unless the call raised ClientError (`fault`: the service
\* refused or could not be reached), False then.
delete(B, key, fault) ==
    IF fault THEN [deleted |-> FALSE, blob |-> B]
    ELSE [deleted |-> TRUE, blob |-> delete_object(B, key)]

(* ------------------------------------------------------ SimulationService *)
\* SimulationJob(...) as create_job builds it, with the column defaults.
NewJob(user_id, simulation_type, t) ==
    [user_id |-> user_id, simulation_type |-> simulation_type, status |-> PENDING,
     progress |-> NULL, parameters |-> EmptyDict, parameters_s3_key |-> NoKey,
     result_s3_key |-> NoKey, result_size_bytes |-> NULL,
     error_code |-> NullStr, error_message |-> NullStr,
     created_at |-> t, started_at |-> NULL, completed_at |-> NULL]

\* The row `job` written under `job_id`.
PutJob(J, job_id, job) ==
    [k \in DOMAIN J \cup {job_id} |-> IF k = job_id THEN job ELSE J[k]]

\* create_job that also moves a document of exactly the threshold size.
create_job_atThreshold(J, B, user_id, simulation_type, parameters, job_id, t) ==
    LET job == NewJob(user_id, simulation_type, t)
        params_size == ByteLen(json_dumps(parameters))
        s3_key == build_simulation_key(user_id, job_id, "parameters.json")
    IN  IF params_size >= PARAMETERS_SIZE_THRESHOLD
        THEN [jobs |-> PutJob(J, job_id, [job EXCEPT !.parameters = Placeholder,
                                                    !.parameters_s3_key = s3_key]),
              blob |-> upload_json(B, s3_key, parameters)]
        ELSE [jobs |-> PutJob(J, job_id, [job EXCEPT !.parameters = parameters]),
              blob |-> B]

\* create_job that keeps a large document inline as well as in the store.
create_job_keepsInline(J, B, user_id, simulation_type, parameters, job_id, t) ==
    LET job == NewJob(user_id, simulation_type, t)
        params_size == ByteLen(json_dumps(parameters))
        s3_key == build_simulation_key(user_id, job_id, "parameters.json")
    IN  IF params_size > PARAMETERS_SIZE_THRESHOLD
        THEN [jobs |-> PutJob(J, job_id, [job EXCEPT !.parameters = parameters,
                                                    !.parameters_s3_key = s3_key]),
              blob |-> upload_json(B, s3_key, parameters)]
        ELSE [jobs |-> PutJob(J, job_id, [job EXCEPT !.parameters = parameters]),
              blob |-> B]

\* create_job: the record, and the parameters inline or in the blob store.
create_job(J, B, user_id, simulation_type, parameters, job_id, t) ==
    LET job == NewJob(user_id, simulation_type, t)
        params_size == ByteLen(json_dumps(parameters))
        s3_key == build_simulation_key(user_id, job_id, "parameters.json")
    IN  IF params_size > PARAMETERS_SIZE_THRESHOLD
        THEN [jobs |-> PutJob(J, job_id, [job EXCEPT !.parameters = Placeholder,
                                                    !.parameters_s3_key = s3_key]),
              blob |-> upload_json(B, s3_key, parameters)]
        ELSE [jobs |-> PutJob(J, job_id, [job EXCEPT !.parameters = parameters]),
              blob |-> B]

\* The query of get_job: the row with this id and this owner, if any.
JobQuery(J, user_id, job_id) ==
    {k \in DOMAIN J : k = job_id /\ J[k].user_id = user_id}

NotFound(kind, id) == [error |-> "NotFound", resource |-> kind, id |-> id]

\* get_job that looks the row up by id and then refuses another owner's row.
get_job_forbidden(J, user_id, job_id) ==
    IF job_id \notin DOMAIN J
    THEN NotFound("Simulation", job_id)
    ELSE IF J[job_id].user_id # user_id
    THEN [error |-> "Forbidden", resource |-> "Simulation", id |-> job_id]
    ELSE [error |-> "", job |-> J[job_id]]

\* get_job: the job, or SimulationNotFoundError(job_id).
get_job(J, user_id, job_id) ==
    IF JobQuery(J, user_id, job_id) = {}
    THEN NotFound("Simulation", job_id)
    ELSE [error |-> "", job |-> J[job_id]]

\* get_job_by_id: no ownership check.
get_job_by_id(J, job_id) ==
    IF job_id \notin DOMAIN J
    THEN NotFound("Simulation", job_id)
    ELSE [error |-> "", job |-> J[job_id]]

\* get_job_parameters that never looks in the store.
get_job_parameters_inlineOnly(B, job) == job.parameters

\* get_job_parameters
get_job_parameters(B, job) ==
    IF job.parameters_s3_key # NoKey
    THEN download_json(B, job.parameters_s3_key)
    ELSE job.parameters

\* get_job_result that returns whatever result the record points to.
get_job_result_byKey(J, B, user_id, job_id) ==
    LET got == get_job(J, user_id, job_id)
        job == got.job
    IN  IF got.error # "" THEN got
        ELSE IF job.result_s3_key = NoKey
        THEN [error |-> "", job_id |-> job_id, status |-> job.status,
              message |-> <<"Simulation is", job.status>>]
        ELSE [error |-> "", job_id |-> job_id, status |-> COMPLETED,
              result |-> download_json(B, job.result_s3_key),
              completed_at |-> job.completed_at]

\* get_job_result: a status-only view, ResultNotFoundError, or the result.
get_job_result(J, B, user_id, job_id) ==
    LET got == get_job(J, user_id, job_id)
        job == got.job
    IN  IF got.error # "" THEN got
        ELSE IF job.status # COMPLETED
        THEN [error |-> "", job_id |-> job_id, status |-> job.status,
              message |-> <<"Simulation is", job.status>>]
        ELSE IF job.result_s3_key = NoKey
        THEN [error |-> "ResultNotFound", id |-> job_id]
        ELSE [error |-> "", job_id |-> job_id, status |-> COMPLETED,
              result |-> download_json(B, job.result_s3_key),
              completed_at |-> job.completed_at]

\* update_job_status that stamps started_at at every update to RUNNING.
update_job_status_restarts(J, job_id, status, progress, error_code, error_message, t) ==
    LET job == J[job_id]
        j1 == [job EXCEPT !.status = status]
        j2 == IF progress # NULL THEN [j1 EXCEPT !.progress = progress] ELSE j1
        j3 == IF status = RUNNING THEN [j2 EXCEPT !.started_at = t] ELSE j2
        j4 == IF status \in {COMPLETED, FAILED, CANCELLED}
              THEN [j3 EXCEPT !.completed_at = t] ELSE j3
        j5 == IF error_code \notin {NullStr, ""}
              THEN [j4 EXCEPT !.error_code = error_code] ELSE j4
        j6 == IF error_message \notin {NullStr, ""}
              THEN [j5 EXCEPT !.error_message = error_message] ELSE j5
    IN  PutJob(J, job_id, j6)

\* update_job_status that leaves a job in a terminal status as it is.
update_job_status_guarded(J, job_id, status, progress, error_code, error_message, t) ==
    LET job == J[job_id]
        j1 == [job EXCEPT !.status = status]
        j2 == IF progress # NULL THEN [j1 EXCEPT !.progress = progress] ELSE j1
        j3 == IF status = RUNNING /\ j2.started_at = NULL
              THEN [j2 EXCEPT !.started_at = t] ELSE j2
        j4 == IF status \in {COMPLETED, FAILED, CANCELLED}
              THEN [j3 EXCEPT !.completed_at = t] ELSE j3
        j5 == IF error_code \notin {NullStr, ""}
              THEN [j4 EXCEPT !.error_code = error_code] ELSE j4
        j6 == IF error_message \notin {NullStr, ""}
              THEN [j5 EXCEPT !.error_message = error_message] ELSE j5
    IN  IF job.status \in {COMPLETED, FAILED, CANCELLED} THEN J ELSE PutJob(J, job_id, j6)

\* update_job_status, for a job that exists (the tasks call it for no other).
update_job_status(J, job_id, status, progress, error_code, error_message, t) ==
    LET job == J[job_id]
        j1 == [job EXCEPT !.status = status]
        j2 == IF progress # NULL THEN [j1 EXCEPT !.progress = progress] ELSE j1
        j3 == IF status = RUNNING /\ j2.started_at = NULL
              THEN [j2 EXCEPT !.started_at = t] ELSE j2
        j4 == IF status \in {COMPLETED, FAILED, CANCELLED}
              THEN [j3 EXCEPT !.completed_at = t] ELSE j3
        j5 == IF error_code \notin {NullStr, ""}
              THEN [j4 EXCEPT !.error_code = error_code] ELSE j4
        j6 == IF error_message \notin {NullStr, ""}
              THEN [j5 EXCEPT !.error_message = error_message] ELSE j5
    IN  PutJob(J, job_id, j6)

\* save_result that leaves the progress column as it was.
save_result_keepsProgress(J, B, job_id, result, t) ==
    LET job == J[job_id]
        s3_key == build_simulation_key(job.user_id, job_id, "result.json")
        B1 == upload_json(B, s3_key, result)
    IN  [jobs |-> PutJob(J, job_id,
                     [job EXCEPT !.result_s3_key = s3_key,
                                 !.result_size_bytes = get_object_size(B1, s3_key),
                                 !.status = COMPLETED,
                                 !.completed_at = t]),
         blob |-> B1]

\* save_result that does not write over a result that is already stored.
save_result_keepsFirst(J, B, job_id, result, t) ==
    LET job == J[job_id]
        s3_key == build_simulation_key(job.user_id, job_id, "result.json")
        B1 == IF exists(B, s3_key) THEN B ELSE upload_json(B, s3_key, result)
    IN  [jobs |-> PutJob(J, job_id,
                     [job EXCEPT !.result_s3_key = s3_key,
                                 !.result_size_bytes = get_object_size(B1, s3_key),
                                 !.status = COMPLETED,
                                 !.completed_at = t,
                                 !.progress = ProgressOne]),
         blob |-> B1]

\* save_result that stores the result and completes the job without
\* recording where the result is.
save_result_noReference(J, B, job_id, result, t) ==
    LET job == J[job_id]
        s3_key == build_simulation_key(job.user_id, job_id, "result.json")
        B1 == upload_json(B, s3_key, result)
    IN  [jobs |-> PutJob(J, job_id,
                     [job EXCEPT !.status = COMPLETED,
                                 !.completed_at = t,
                                 !.progress = ProgressOne]),
         blob |-> B1]

\* save_result, for a job that exists.
save_result(J, B, job_id, result, t) ==
    LET job == J[job_id]
        s3_key == build_simulation_key(job.user_id, job_id, "result.json")
        B1 == upload_json(B, s3_key, result)
    IN  [jobs |-> PutJob(J, job_id,
                     [job EXCEPT !.result_s3_key = s3_key,
                                 !.result_size_bytes = get_object_size(B1, s3_key),
                                 !.status = COMPLETED,
                                 !.completed_at = t,
                                 !.progress = ProgressOne]),
         blob |-> B1]

\* cancel_job that writes the wrong terminal status.
cancel_job_completes(J, user_id, job_id, t) ==
    LET got == get_job(J, user_id, job_id)
        job == got.job
    IN  IF got.error # "" THEN [error |-> got, jobs |-> J]
        ELSE IF job.status \notin {PENDING, RUNNING}
        THEN [error |-> [error |-> "ValueError",
                         message |-> <<"Cannot cancel job with status", job.status>>],
              jobs |-> J]
        ELSE [error |-> [error |-> ""],
              jobs |-> PutJob(J, job_id, [job EXCEPT !.status = COMPLETED,
                                                     !.completed_at = t])]

\* cancel_job that also resets the progress of the job it cancels.
cancel_job_clearsProgress(J, user_id, job_id, t) ==
    LET got == get_job(J, user_id, job_id)
        job == got.job
    IN  IF got.error # "" THEN [error |-> got, jobs |-> J]
        ELSE IF job.status \notin {PENDING, RUNNING}
        THEN [error |-> [error |-> "ValueError",
                         message |-> <<"Cannot cancel job with status", job.status>>],
              jobs |-> J]
        ELSE [error |-> [error |-> ""],
              jobs |-> PutJob(J, job_id, [job EXCEPT !.status = CANCELLED,
                                                     !.completed_at = t,
                                                     !.progress = NULL])]

\* cancel_job that accepts a job that is already CANCELLED.
cancel_job_idempotent(J, user_id, job_id, t) ==
    LET got == get_job(J, user_id, job_id)
        job == got.job
    IN  IF got.error # "" THEN [error |-> got, jobs |-> J]
        ELSE IF job.status \notin {PENDING, RUNNING, CANCELLED}
        THEN [error |-> [error |-> "ValueError",
                         message |-> <<"Cannot cancel job with status", job.status>>],
              jobs |-> J]
        ELSE [error |-> [error |-> ""],
              jobs |-> PutJob(J, job_id, [job EXCEPT !.status = CANCELLED,
                                                     !.completed_at = t])]

\* cancel_job that looks the job up by id alone, whoever owns it.
cancel_job_anyOwner(J, user_id, job_id, t) ==
    LET got == get_job_by_id(J, job_id)
        job == got.job
    IN  IF got.error # "" THEN [error |-> got, jobs |-> J]
        ELSE IF job.status \notin {PENDING, RUNNING}
        THEN [error |-> [error |-> "ValueError",
                         message |-> <<"Cannot cancel job with status", job.status>>],
              jobs |-> J]
        ELSE [error |-> [error |-> ""],
              jobs |-> PutJob(J, job_id, [job EXCEPT !.status = CANCELLED,
                                                     !.completed_at = t])]

\* cancel_job: the error raised ("" for none) and the rows afterwards.
cancel_job(J, user_id, job_id, t) ==
    LET got == get_job(J, user_id, job_id)
        job == got.job
    IN  IF got.error # "" THEN [error |-> got, jobs |-> J]
        ELSE IF job.status \notin {PENDING, RUNNING}
        THEN [error |-> [error |-> "ValueError",
                         message |-> <<"Cannot cancel job with status", job.status>>],
              jobs |-> J]
        ELSE [error |-> [error |-> ""],
              jobs |-> PutJob(J, job_id, [job EXCEPT !.status = CANCELLED,
                                                     !.completed_at = t])]

\* The orderings of the rows `ids` of table T that ORDER BY created_at DESC
\* can produce: rows with equal created_at come in any order.
NewestFirst(T, ids) ==
    {o \in [1..Cardinality(ids) -> ids] :
        /\ \A i, k \in DOMAIN o : i # k => o[i] # o[k]
        /\ \A i, k \in DOMAIN o : i < k => T[o[i]].created_at >= T[o[k]].created_at}

\* .offset(offset).limit(limit) of an ordered result.
Page(o, limit, offset) ==
    [i \in 1..(IF Len(o) - offset < limit
               THEN (IF Len(o) > offset THEN Len(o) - offset ELSE 0)
               ELSE limit) |-> o[offset + i]]

\* list_jobs that applies the offset to the ids of the rows, not to their order.
list_jobs_oldestFirst(J, user_id, status, simulation_type, limit, offset) ==
    LET owned == {k \in DOMAIN J : J[k].user_id = user_id}
        by_status == IF status # NullStr
                     THEN {k \in owned : J[k].status = status} ELSE owned
        by_type == IF simulation_type \notin {NullStr, ""}
                   THEN {k \in by_status : J[k].simulation_type = simulation_type}
                   ELSE by_status
    IN  {Page([i \in DOMAIN o |-> o[Len(o) + 1 - i]], limit, offset) :
            o \in NewestFirst(J, by_type)}

\* list_jobs: the sequences of job ids the query can return.
list_jobs(J, user_id, status, simulation_type, limit, offset) ==
    LET owned == {k \in DOMAIN J : J[k].user_id = user_id}
        by_status == IF status # NullStr
                     THEN {k \in owned : J[k].status = status} ELSE owned
        by_type == IF simulation_type \notin {NullStr, ""}
                   THEN {k \in by_status : J[k].simulation_type = simulation_type}
                   ELSE by_status
    IN  {Page(o, limit, offset) : o \in NewestFirst(J, by_type)}

(* ---------------------------------------------------------- ReportService *)
NewReport(user_id, report_type, output_format, simulation_job_ids, t) ==
    [user_id |-> user_id, report_type |-> report_type,
     output_format |-> output_format, status |-> PENDING,
     simulation_job_ids |-> simulation_job_ids, parameters |-> EmptyDict,
     s3_key |-> NoKey, content_type |-> NullStr, size_bytes |-> NULL,
     error_code |-> NullStr, error_message |-> NullStr,
     created_at |-> t, completed_at |-> NULL]

PutReport(R, report_id, report) ==
    [k \in DOMAIN R \cup {report_id} |-> IF k = report_id THEN report ELSE R[k]]

\* The verification loop of create_report from position i on: the error of the
\* first referenced job that is missing, not the caller's, or not COMPLETED.
RECURSIVE VerifyJobs(_, _, _, _)
VerifyJobs(J, user_id, ids, i) ==
    IF i > Len(ids) THEN [error |-> ""]
    ELSE IF JobQuery(J, user_id, ids[i]) = {}
    THEN NotFound("Simulation", ids[i])
    ELSE IF J[ids[i]].status # COMPLETED
    THEN [error |-> "SimulationNotCompleted", id |-> ids[i]]
    ELSE VerifyJobs(J, user_id, ids, i + 1)

\* create_report that adds and commits the row before it verifies the jobs.
create_report_persistsFirst(J, R, user_id, ids, report_type, output_format, report_id, t) ==
    LET checked == VerifyJobs(J, user_id, ids, 1)
    IN  [error |-> checked,
         reports |-> PutReport(R, report_id,
                        NewReport(user_id, report_type, output_format, ids, t)),
         enqueued |-> checked.error = ""]

\* create_report: the error raised, the rows afterwards, and whether it enqueued.
create_report(J, R, user_id, ids, report_type, output_format, report_id, t) ==
    LET checked == VerifyJobs(J, user_id, ids, 1)
    IN  IF checked.error # ""
        THEN [error |-> checked, reports |-> R, enqueued |-> FALSE]
        ELSE [error |-> checked,
              reports |-> PutReport(R, report_id,
                             NewReport(user_id, report_type, output_format, ids, t)),
              enqueued |-> TRUE]

ReportQuery(R, user_id, report_id) ==
    {k \in DOMAIN R : k = report_id /\ R[k].user_id = user_id}

\* get_report: the report, or ReportNotFoundError(report_id).
get_report(R, user_id, report_id) ==
    IF ReportQuery(R, user_id, report_id) = {}
    THEN NotFound("Report", report_id)
    ELSE [error |-> "", report |-> R[report_id]]

\* get_report_by_id: no ownership check.
get_report_by_id(R, report_id) ==
    IF report_id \notin DOMAIN R
    THEN NotFound("Report", report_id)
    ELSE [error |-> "", report |-> R[report_id]]

\* generate_presigned_url: a URL for the key that is valid for expires_in seconds.
generate_presigned_url(key, expires_in) ==
    [url |-> "get_object", key |-> key, ExpiresIn |-> expires_in]

\* The fields every response of get_report_with_url has.
ReportView(report, report_id) ==
    [error |-> "", report_id |-> report_id, user_id |-> report.user_id,
     status |-> report.status, report_type |-> report.report_type,
     output_format |-> report.output_format,
     simulation_job_ids |-> report.simulation_job_ids,
     created_at |-> report.created_at]

\* get_report_with_url that offers the download whenever a file key is stored.
get_report_with_url_byKey(R, user_id, report_id, t) ==
    LET got == get_report(R, user_id, report_id)
        report == got.report
        expires_in == PRESIGNED_URL_EXPIRY
        download == IF report.s3_key # NoKey
                    THEN [download_url |-> generate_presigned_url(report.s3_key, expires_in),
                          url_expires_at |-> t + expires_in,
                          content_type |-> report.content_type,
                          size_bytes |-> report.size_bytes,
                          completed_at |-> report.completed_at]
                    ELSE <<>>
        failure == IF report.status = FAILED
                   THEN [error_detail |-> [code |-> report.error_code,
                                           message |-> report.error_message]]
                   ELSE <<>>
    IN  IF got.error # "" THEN got
        ELSE failure @@ download @@ ReportView(report, report_id)

\* get_report_with_url at time t: the response dictionary (its "error" entry
\* is error_detail here), or ReportNotFoundError.
get_report_with_url(R, user_id, report_id, t) ==
    LET got == get_report(R, user_id, report_id)
        report == got.report
        expires_in == PRESIGNED_URL_EXPIRY
        download == IF report.status = COMPLETED /\ report.s3_key # NoKey
                    THEN [download_url |-> generate_presigned_url(report.s3_key, expires_in),
                          url_expires_at |-> t + expires_in,
                          content_type |-> report.content_type,
                          size_bytes |-> report.size_bytes,
                          completed_at |-> report.completed_at]
                    ELSE <<>>
        failure == IF report.status = FAILED
                   THEN [error_detail |-> [code |-> report.error_code,
                                           message |-> report.error_message]]
                   ELSE <<>>
    IN  IF got.error # "" THEN got
        ELSE failure @@ download @@ ReportView(report, report_id)

\* list_reports: the sequences of report ids the query can return.
list_reports(R, user_id, status, report_type, limit, offset) ==
    LET owned == {k \in DOMAIN R : R[k].user_id = user_id}
        by_status == IF status # NullStr
                     THEN {k \in owned : R[k].status = status} ELSE owned
        by_type == IF report_type \notin {NullStr, ""}
                   THEN {k \in by_status : R[k].report_type = report_type}
                   ELSE by_status
    IN  {Page(o, limit, offset) : o \in NewestFirst(R, by_type)}

\* update_report_status, for a report that exists.
update_report_status(R, report_id, status, error_code, error_message, t) ==
    LET report == R[report_id]
        r1 == [report EXCEPT !.status = status]
        r2 == IF status \in {COMPLETED, FAILED}
              THEN [r1 EXCEPT !.completed_at = t] ELSE r1
        r3 == IF error_code \notin {NullStr, ""}
              THEN [r2 EXCEPT !.error_code = error_code] ELSE r2
        r4 == IF error_message \notin {NullStr, ""}
              THEN [r3 EXCEPT !.error_message = error_message] ELSE r3
    IN  PutReport(R, report_id, r4)

\* upload_file: the bytes are stored as they are.
upload_file(B, key, file_content) ==
    [k \in DOMAIN B \cup {key} |-> IF k = key THEN file_content ELSE B[k]]

\* save_report_file, for a report that exists.
save_report_file(R, B, report_id, file_content, content_type, filename, t) ==
    LET report == R[report_id]
        s3_key == build_report_key(report.user_id, report_id, filename)
    IN  [reports |-> PutReport(R, report_id,
                        [report EXCEPT !.s3_key = s3_key,
                                       !.content_type = content_type,
                                       !.size_bytes = Len(file_content),
                                       !.status = COMPLETED,
                                       !.completed_at = t]),
         blob |-> upload_file(B, s3_key, file_content)]

\* _default_report_handler: a JSON document of its arguments.
default_report_handler(report_type, output_format, parameters, simulation_results) ==
    [file_content |-> <<"report_type", report_type, "output_format", output_format,
                        "parameters", parameters,
                        "simulation_results", simulation_results, "note">>,
     content_type |-> "application/json",
     filename |-> "report.json"]

\* What a registered report handler can return from generate().
GeneratedFiles ==
    {[file_content |-> <<"%PDF", "EOF">>, content_type |-> "application/pdf",
      filename |-> "report.pdf"]}

(* ------------------------------------------------------------------ queue *)
\* A message of the broker: the task, the id it was enqueued with, and the
\* number of retries of the request (0 for .delay()).
Msg(task, id, retries) == [task |-> task, id |-> id, retries |-> retries]
Messages == {Msg("process_simulation", j, r) : j \in JobIds, r \in 0..max_retries}
            \cup {Msg("generate_report", i, r) : i \in ReportIds, r \in 0..max_retries}
NoMsg == Msg("none", 0, 0)

\* Enqueue that puts the message on the queue twice.
Enqueue_twice(Q, m) == [Q EXCEPT ![m] = @ + 2]
\* The queue is a bag: how many copies of each message wait for a worker.
Enqueue(Q, m) == [Q EXCEPT ![m] = @ + 1]
Dequeue(Q, m) == [Q EXCEPT ![m] = @ - 1]

\* A worker process: where it is in the task body, the message it has not yet
\* acknowledged, the progress calls its handler has made, the parameters it resolved.
\* the handler it looked up, the results it gathered for a report.
Idle == [pc |-> "idle", msg |-> NoMsg, calls |-> 0, parameters |-> EmptyDict,
         handler |-> NullStr, results |-> <<>>]

ReportTypes == {"summary"}
OutputFormats == {"PDF"}
JobIdLists == {<<a>> : a \in JobIds} \cup {<<a, b>> : a \in JobIds, b \in JobIds}

(* ------------------------------------------------------ handler registries *)
Handlers == {"h1", "h2"}
\* SimulationHandlerRegistry and ReportHandlerRegistry, each with its own dict.
Registries == {"simulation", "report"}
RegistryTags == SimTypes \cup ReportTypes

\* cls._handlers is a dict: a function from the registered tags to handlers.
\* register that keeps the handler a tag already has.
register_keepsFirst(H, tag, handler) ==
    [k \in DOMAIN H \cup {tag} |-> IF k \in DOMAIN H THEN H[k] ELSE handler]
register(H, tag, handler) ==
    [k \in DOMAIN H \cup {tag} |-> IF k = tag THEN handler ELSE H[k]]
unregister(H, tag) ==
    IF tag \in DOMAIN H THEN [k \in DOMAIN H \ {tag} |-> H[k]] ELSE H
\* get_handler that gives the handler of some registered tag.
get_handler_anyTag(H, tag) ==
    IF DOMAIN H # {} THEN H[CHOOSE k \in DOMAIN H : TRUE] ELSE NullStr
get_handler(H, tag) == IF tag \in DOMAIN H THEN H[tag] ELSE NullStr
list_handlers(H) == DOMAIN H
clear(H) == [k \in {} |-> NullStr]

\* _default_simulation_handler: echoes its input.
default_simulation_handler(simulation_type, parameters) ==
    [simulation_type |-> simulation_type, input_parameters |-> parameters,
     output |-> "Simulation completed (default handler)", metrics |-> 2]
\* What a handler can return for a run: anything from a registered handler,
\* the echo from the default one.
HandlerResults(handler, simulation_type, parameters) ==
    IF handler = NullStr
    THEN {default_simulation_handler(simulation_type, parameters)}
    ELSE ResultDocs

\* Every result a run can store.
SimResults ==
    ResultDocs \cup {default_simulation_handler(t, d) :
                        t \in SimTypes, d \in ParamDocs \cup BoundaryDocs}

\* One call of a registry method, as the log of calls keeps it.
Call(op, kind, tag, handler) ==
    [op |-> op, kind |-> kind, tag |-> tag, handler |-> handler]

\* A unit of work: what one enqueue and its retries are about.
Unit(m) == [task |-> m.task, id |-> m.id]

(* ------------------------------------------------------------ UserService *)
Emails == {"a@example.com", "b@example.com"}
\* The API workers that handle POST /auth/register.
Requests == {"r1", "r2"}
\* A request: where its handler is, the email it carries, what it answered.
Request(pc, email, response) == [pc |-> pc, email |-> email, response |-> response]
NoRequest == Request("idle", NullStr, NullStr)

\* get_user_by_email: the ids of the rows with this email (.first() of them).
get_user_by_email(U, email) == {k \in DOMAIN U : U[k].email = email}

\* create_user: INSERT and commit. The unique index on users.email makes the
\* commit raise IntegrityError when a row with the email is there.
create_user(U, email, user_id) ==
    IF \E k \in DOMAIN U : U[k].email = email
    THEN [error |-> "IntegrityError", users |-> U]
    ELSE [error |-> "",
          users |-> [k \in DOMAIN U \cup {user_id} |->
                        IF k = user_id THEN [email |-> email] ELSE U[k]]]

\* registry: the two _handlers dicts. calls: the register / unregister / clear
\* calls made so far. submitted: the document each job was created with.
\* exhausted: the units of work whose last retry has raised.
\* users: the rows of the users table. requests: the registration request
\* each API worker is handling.
VARIABLES jobs, reports, blob, queue, workers, now, delivered, redelivered,
          cancel_ok, registry, calls, submitted, exhausted, users, requests

vars == <<jobs, reports, blob, queue, workers, now, delivered, redelivered,
          cancel_ok, registry, calls, submitted, exhausted, users, requests>>

Init ==
    /\ jobs = <<>>
    /\ reports = <<>>
    /\ blob = <<>>
    /\ queue = [m \in Messages |-> 0]
    /\ workers = [w \in Workers |-> Idle]
    /\ now = 1
    /\ delivered = 0
    /\ redelivered = 0
    /\ cancel_ok = {}
    /\ registry = [simulation |-> [t \in SimTypes |-> "h1"],
                   report |-> [t \in ReportTypes |-> "h1"]]
    /\ calls = <<Call("register", "simulation", "monte_carlo", "h1"),
                 Call("register", "report", "summary", "h1")>>
    /\ submitted = <<>>
    /\ exhausted = {}
    /\ users = <<>>
    /\ requests = [r \in Requests |-> NoRequest]

(* -------------------------------------------------------------------- API *)
\* POST /simulations: create_job and _enqueue_job. The uuid4 of the new row is
\* the next id that no row has.
CreateJob(user_id, simulation_type, parameters) ==
    \E job_id \in JobIds \ DOMAIN jobs :
        /\ job_id = Cardinality(DOMAIN jobs) + 1
        /\ LET r == create_job(jobs, blob, user_id, simulation_type, parameters,
                               job_id, now)
           IN  /\ jobs' = r.jobs
               /\ blob' = r.blob
        /\ queue' = Enqueue(queue, Msg("process_simulation", job_id, 0))
        /\ submitted' = PutJob(submitted, job_id, parameters)
        /\ UNCHANGED <<reports, workers, now, delivered, redelivered, cancel_ok,
                       registry, calls, exhausted,
                       users, requests>>

\* POST /simulations/{job_id}/cancel. cancel_ok remembers the jobs for which
\* the call has succeeded.
CancelJob(user_id, job_id) ==
    LET r == cancel_job(jobs, user_id, job_id, now)
    IN  /\ jobs' = r.jobs
        /\ cancel_ok' = IF r.error.error = "" THEN cancel_ok \cup {job_id}
                        ELSE cancel_ok
        /\ UNCHANGED <<reports, blob, queue, workers, now, delivered, redelivered,
                       registry, calls, submitted, exhausted,
                       users, requests>>

\* POST /reports: create_report and, when it passed, _enqueue_report. The
\* uuid4 of the new row is the next id that no row has.
CreateReport(user_id, ids, report_type, output_format) ==
    \E report_id \in ReportIds :
        /\ report_id = IF Cardinality(DOMAIN reports) < MaxReports
                       THEN Cardinality(DOMAIN reports) + 1 ELSE MaxReports
        /\ LET r == create_report(jobs, reports, user_id, ids, report_type,
                                  output_format, report_id, now)
           IN  /\ (r.enqueued => report_id \notin DOMAIN reports)
               /\ reports' = r.reports
               /\ queue' = IF r.enqueued
                           THEN Enqueue(queue, Msg("generate_report", report_id, 0))
                           ELSE queue
        /\ UNCHANGED <<jobs, blob, workers, now, delivered, redelivered, cancel_ok,
                       registry, calls, submitted, exhausted,
                       users, requests>>

(* ----------------------------------------------------- process_simulation *)
Busy(w) == workers[w].pc # "idle"
JobOf(w) == workers[w].msg.id

\* An idle worker takes a message off its queue; the message stays
\* unacknowledged until the task returns.
Take(w, m) ==
    /\ workers[w].pc = "idle"
    /\ queue[m] > 0
    /\ queue' = Dequeue(queue, m)
    /\ workers' = [workers EXCEPT ![w] = [Idle EXCEPT !.pc = "start", !.msg = m]]
    /\ delivered' = delivered + 1
    /\ UNCHANGED <<jobs, reports, blob, now, redelivered, cancel_ok,
                   registry, calls, submitted, exhausted,
                   users, requests>>

\* A worker takes a message off the simulations queue.
Receive(w, m) ==
    /\ m.task = "process_simulation"
    /\ delivered < MaxDeliveries
    /\ Take(w, m)

\* A task that enters the handler without marking the job RUNNING.
SimStart_skipsRunning(w) ==
    /\ workers[w].pc = "start"
    /\ workers[w].msg.task = "process_simulation"
    /\ workers' = [workers EXCEPT
                     ![w].pc = "execute",
                     ![w].parameters = get_job_parameters(blob, jobs[JobOf(w)]),
                     ![w].handler = get_handler(registry.simulation,
                                                jobs[JobOf(w)].simulation_type)]
    /\ UNCHANGED <<jobs, reports, blob, queue, now, delivered, redelivered, cancel_ok,
                   registry, calls, submitted, exhausted,
                   users, requests>>

\* The task starts: update_job_status(RUNNING), then get_job_by_id,
\* get_job_parameters and the handler lookup; the handler is entered.
SimStart(w) ==
    /\ workers[w].pc = "start"
    /\ workers[w].msg.task = "process_simulation"
    /\ jobs' = update_job_status(jobs, JobOf(w), RUNNING, NULL, NullStr, NullStr, now)
    /\ workers' = [workers EXCEPT
                     ![w].pc = "execute",
                     ![w].parameters = get_job_parameters(blob, jobs[JobOf(w)]),
                     ![w].handler = get_handler(registry.simulation,
                                                jobs[JobOf(w)].simulation_type)]
    /\ UNCHANGED <<reports, blob, queue, now, delivered, redelivered, cancel_ok,
                   registry, calls, submitted, exhausted,
                   users, requests>>

\* The registered handler calls progress_callback(p); the default handler
\* is not given the callback.
SimProgress(w, p) ==
    /\ workers[w].pc = "execute"
    /\ workers[w].handler # NullStr
    /\ workers[w].calls < MaxProgressCalls
    /\ jobs' = update_job_status(jobs, JobOf(w), RUNNING, p, NullStr, NullStr, now)
    /\ workers' = [workers EXCEPT ![w].calls = @ + 1]
    /\ UNCHANGED <<reports, blob, queue, now, delivered, redelivered, cancel_ok,
                   registry, calls, submitted, exhausted,
                   users, requests>>

\* The handler returns `result`, the task calls save_result and returns; the
\* message is acknowledged (acks_late).
SimSaveResult(w, result) ==
    /\ workers[w].pc = "execute"
    /\ result \in HandlerResults(workers[w].handler,
                                  jobs[JobOf(w)].simulation_type,
                                  workers[w].parameters)
    /\ LET r == save_result(jobs, blob, JobOf(w), result, now)
       IN  jobs' = r.jobs /\ blob' = r.blob
    /\ workers' = [workers EXCEPT ![w] = Idle]
    /\ UNCHANGED <<reports, queue, now, delivered, redelivered, cancel_ok,
                   registry, calls, submitted, exhausted,
                   users, requests>>

\* What autoretry_for does with the exception of a request: a new message with
\* one more retry while the request has retries left, nothing after that.
Retry(Q, m) ==
    IF m.retries < max_retries THEN Enqueue(Q, [m EXCEPT !.retries = @ + 1]) ELSE Q

\* An except block that puts the job back to PENDING while retries are left.
SimExcept_backToPending(w, message) ==
    /\ workers[w].pc = "execute"
    /\ jobs' = update_job_status(jobs, JobOf(w),
                                 IF workers[w].msg.retries < max_retries
                                 THEN PENDING ELSE FAILED,
                                 NULL, "SIMULATION_ERROR", message, now)
    /\ queue' = Retry(queue, workers[w].msg)
    /\ exhausted' = IF workers[w].msg.retries < max_retries THEN exhausted
                    ELSE exhausted \cup {Unit(workers[w].msg)}
    /\ workers' = [workers EXCEPT ![w] = Idle]
    /\ UNCHANGED <<reports, blob, now, delivered, redelivered, cancel_ok,
                   registry, calls, submitted,
                   users, requests>>

\* An except block that re-raises without marking the job FAILED.
SimExcept_reraises(w, message) ==
    /\ workers[w].pc = "execute"
    /\ queue' = Retry(queue, workers[w].msg)
    /\ exhausted' = IF workers[w].msg.retries < max_retries THEN exhausted
                    ELSE exhausted \cup {Unit(workers[w].msg)}
    /\ workers' = [workers EXCEPT ![w] = Idle]
    /\ UNCHANGED <<jobs, reports, blob, now, delivered, redelivered, cancel_ok,
                   registry, calls, submitted,
                   users, requests>>

\* The handler raises: the except block marks the job FAILED and re-raises,
\* the task is retried and the message acknowledged.
SimExcept(w, message) ==
    /\ workers[w].pc = "execute"
    /\ jobs' = update_job_status(jobs, JobOf(w), FAILED, NULL, "SIMULATION_ERROR",
                                 message, now)
    /\ queue' = Retry(queue, workers[w].msg)
    /\ exhausted' = IF workers[w].msg.retries < max_retries THEN exhausted
                    ELSE exhausted \cup {Unit(workers[w].msg)}
    /\ workers' = [workers EXCEPT ![w] = Idle]
    /\ UNCHANGED <<reports, blob, now, delivered, redelivered, cancel_ok,
                   registry, calls, submitted,
                   users, requests>>

\* The worker process dies before acknowledging: the broker requeues the
\* message (task_reject_on_worker_lost).
WorkerLost(w) ==
    /\ Busy(w)
    /\ redelivered < MaxRedeliver
    /\ queue' = Enqueue(queue, workers[w].msg)
    /\ workers' = [workers EXCEPT ![w] = Idle]
    /\ redelivered' = redelivered + 1
    /\ UNCHANGED <<jobs, reports, blob, now, delivered, cancel_ok,
                   registry, calls, submitted, exhausted,
                   users, requests>>

\* The broker delivers an unacknowledged message again while its worker is
\* still running it (at-least-once delivery).
Redeliver(w) ==
    /\ Busy(w)
    /\ redelivered < MaxRedeliver
    /\ queue' = Enqueue(queue, workers[w].msg)
    /\ redelivered' = redelivered + 1
    /\ UNCHANGED <<jobs, reports, blob, workers, now, delivered, cancel_ok,
                   registry, calls, submitted, exhausted,
                   users, requests>>

(* -------------------------------------------------------- generate_report *)
ReportOf(w) == workers[w].msg.id

\* What get_job_result gives the task for each referenced job, in list order.
GatherResults(J, B, report) ==
    [i \in 1..Len(report.simulation_job_ids) |->
        get_job_result(J, B, report.user_id, report.simulation_job_ids[i])]

\* The task starts: update_report_status(GENERATING), get_report_by_id, the
\* get_job_result of every referenced job and the handler lookup. A
\* get_job_result that raises takes the except block: FAILED, retry.
RepStart(w) ==
    /\ workers[w].pc = "start"
    /\ workers[w].msg.task = "generate_report"
    /\ LET R1 == update_report_status(reports, ReportOf(w), GENERATING,
                                      NullStr, NullStr, now)
           report == R1[ReportOf(w)]
           gathered == GatherResults(jobs, blob, report)
           raised == {i \in DOMAIN gathered : gathered[i].error # ""}
       IN  IF raised = {}
           THEN /\ reports' = R1
                /\ workers' = [workers EXCEPT
                                 ![w].pc = "generate",
                                 ![w].results = gathered,
                                 ![w].handler = get_handler(registry.report,
                                                            report.report_type)]
                /\ UNCHANGED <<queue, exhausted>>
           ELSE /\ reports' = update_report_status(R1, ReportOf(w), FAILED,
                                   "REPORT_ERROR",
                                   gathered[CHOOSE i \in raised :
                                               \A k \in raised : i <= k].error, now)
                /\ queue' = Retry(queue, workers[w].msg)
                /\ exhausted' = IF workers[w].msg.retries < max_retries
                                THEN exhausted
                                ELSE exhausted \cup {Unit(workers[w].msg)}
                /\ workers' = [workers EXCEPT ![w] = Idle]
    /\ UNCHANGED <<jobs, blob, now, delivered, redelivered, cancel_ok,
                   registry, calls, submitted,
                   users, requests>>

\* What generate() or the default handler returns for the run of worker w.
ReportOutputs(w) ==
    IF workers[w].handler = NullStr
    THEN {default_report_handler(reports[ReportOf(w)].report_type,
                                 reports[ReportOf(w)].output_format,
                                 reports[ReportOf(w)].parameters,
                                 workers[w].results)}
    ELSE GeneratedFiles

\* The handler returns, the task calls save_report_file and returns; the
\* message is acknowledged.
RepSaveFile(w) ==
    /\ workers[w].pc = "generate"
    /\ \E out \in ReportOutputs(w) :
          LET r == save_report_file(reports, blob, ReportOf(w), out.file_content,
                                    out.content_type, out.filename, now)
          IN  reports' = r.reports /\ blob' = r.blob
    /\ workers' = [workers EXCEPT ![w] = Idle]
    /\ UNCHANGED <<jobs, queue, now, delivered, redelivered, cancel_ok,
                   registry, calls, submitted, exhausted,
                   users, requests>>

\* The handler or the store raises: the except block marks the report FAILED
\* and re-raises, the task is retried and the message acknowledged.
RepExcept(w, message) ==
    /\ workers[w].pc = "generate"
    /\ reports' = update_report_status(reports, ReportOf(w), FAILED, "REPORT_ERROR",
                                       message, now)
    /\ queue' = Retry(queue, workers[w].msg)
    /\ exhausted' = IF workers[w].msg.retries < max_retries THEN exhausted
                    ELSE exhausted \cup {Unit(workers[w].msg)}
    /\ workers' = [workers EXCEPT ![w] = Idle]
    /\ UNCHANGED <<jobs, blob, now, delivered, redelivered, cancel_ok,
                   registry, calls, submitted,
                   users, requests>>

\* Time passes: datetime.utcnow() reads `now`.
Tick ==
    /\ now < MaxClock
    /\ now' = now + 1
    /\ UNCHANGED <<jobs, reports, blob, queue, workers, delivered, redelivered, cancel_ok,
                   registry, calls, submitted, exhausted,
                   users, requests>>

Next ==
    \/ \E u \in Users, ty \in SimTypes, d \in ParamDocs : CreateJob(u, ty, d)
    \/ \E u \in Users, j \in JobIds : CancelJob(u, j)
    \/ \E u \in Users, ids \in JobIdLists, rt \in ReportTypes, f \in OutputFormats :
          CreateReport(u, ids, rt, f)
    \/ \E w \in Workers, m \in Messages : Receive(w, m)
    \/ \E w \in Workers : SimStart(w)
    \/ \E w \in Workers, p \in ProgressValues : SimProgress(w, p)
    \/ \E w \in Workers, d \in SimResults : SimSaveResult(w, d)
    \/ \E w \in Workers, e \in ErrorMessages : SimExcept(w, e)
    \/ \E w \in Workers : WorkerLost(w)
    \/ \E w \in Workers : Redeliver(w)
    \/ Tick

Spec == Init /\ [][Next]_vars

\* A worker takes a message off either queue.
Deliver(w, m) ==
    /\ delivered < MaxTaskDeliveries
    /\ Take(w, m)

(* ------------------------------------------------------ registry methods *)
Register(kind, tag, handler) ==
    /\ Len(calls) < MaxCalls
    /\ registry' = [registry EXCEPT ![kind] = register(@, tag, handler)]
    /\ calls' = Append(calls, Call("register", kind, tag, handler))
    /\ UNCHANGED <<jobs, reports, blob, queue, workers, now, delivered,
                   redelivered, cancel_ok, submitted, exhausted,
                   users, requests>>

Unregister(kind, tag) ==
    /\ Len(calls) < MaxCalls
    /\ registry' = [registry EXCEPT ![kind] = unregister(@, tag)]
    /\ calls' = Append(calls, Call("unregister", kind, tag, NullStr))
    /\ UNCHANGED <<jobs, reports, blob, queue, workers, now, delivered,
                   redelivered, cancel_ok, submitted, exhausted,
                   users, requests>>

Clear(kind) ==
    /\ Len(calls) < MaxCalls
    /\ registry' = [registry EXCEPT ![kind] = clear(@)]
    /\ calls' = Append(calls, Call("clear", kind, NullStr, NullStr))
    /\ UNCHANGED <<jobs, reports, blob, queue, workers, now, delivered,
                   redelivered, cancel_ok, submitted, exhausted,
                   users, requests>>

\* The process right after import: both _handlers dicts are empty.
InitRegistry ==
    /\ jobs = <<>>
    /\ reports = <<>>
    /\ blob = <<>>
    /\ queue = [m \in Messages |-> 0]
    /\ workers = [w \in Workers |-> Idle]
    /\ now = 1
    /\ delivered = 0
    /\ redelivered = 0
    /\ cancel_ok = {}
    /\ registry = [simulation |-> clear(<<>>), report |-> clear(<<>>)]
    /\ calls = <<>>
    /\ submitted = <<>>
    /\ exhausted = {}
    /\ users = <<>>
    /\ requests = [r \in Requests |-> NoRequest]

NextRegistry ==
    \/ \E k \in Registries, t \in RegistryTags, h \in Handlers : Register(k, t, h)
    \/ \E k \in Registries, t \in RegistryTags : Unregister(k, t)
    \/ \E k \in Registries : Clear(k)

SpecRegistry == InitRegistry /\ [][NextRegistry]_vars

(* ------------------------------------------------------ dispatch by type *)
\* One job of one user, run while handlers for its type are registered and
\* unregistered.
NextDispatch ==
    \/ \E t \in RegistryTags, h \in Handlers : Register("simulation", t, h)
    \/ \E t \in RegistryTags : Unregister("simulation", t)
    \/ Clear("simulation")
    \/ \E d \in BoundaryDocs : DOMAIN jobs = {} /\ CreateJob("u1", "monte_carlo", d)
    \/ CancelJob("u1", 1)
    \/ \E w \in Workers, m \in Messages : Deliver(w, m)
    \/ \E w \in Workers : SimStart(w)
    \/ \E w \in Workers, p \in ProgressValues : SimProgress(w, p)
    \/ \E w \in Workers, d \in SimResults : SimSaveResult(w, d)
    \/ \E w \in Workers, e \in ErrorMessages : SimExcept(w, e)

SpecDispatch == InitRegistry /\ [][NextDispatch]_vars

(* ------------------------------------------------- placement of parameters *)
\* Jobs created with documents around the threshold and run to every end.
NextParams ==
    \/ \E u \in Users, d \in BoundaryDocs : CreateJob(u, "monte_carlo", d)
    \/ \E u \in Users, j \in JobIds : CancelJob(u, j)
    \/ \E w \in Workers, m \in Messages : Receive(w, m)
    \/ \E w \in Workers : SimStart(w)
    \/ \E w \in Workers, p \in ProgressValues : SimProgress(w, p)
    \/ \E w \in Workers, d \in SimResults : SimSaveResult(w, d)
    \/ \E w \in Workers, e \in ErrorMessages : SimExcept(w, e)
    \/ \E w \in Workers : WorkerLost(w)
    \/ \E w \in Workers : Redeliver(w)

SpecParams == Init /\ [][NextParams]_vars

(* ---------------------------------------------- the two tasks and retries *)
\* One job and one report of one user, followed through every retry of
\* process_simulation and generate_report; an exception may have an empty str().
TaskErrors == {"boom", ""}

NextTasks ==
    \/ \E d \in ParamDocs : DOMAIN jobs = {} /\ CreateJob("u1", "monte_carlo", d)
    \/ CancelJob("u1", 1)
    \/ DOMAIN reports = {} /\ CreateReport("u1", <<1>>, "summary", "PDF")
    \/ \E w \in Workers, m \in Messages : Deliver(w, m)
    \/ \E w \in Workers : SimStart(w)
    \/ \E w \in Workers, d \in SimResults : SimSaveResult(w, d)
    \/ \E w \in Workers, e \in TaskErrors : SimExcept(w, e)
    \/ \E w \in Workers : RepStart(w)
    \/ \E w \in Workers : RepSaveFile(w)
    \/ \E w \in Workers, e \in TaskErrors : RepExcept(w, e)
    \/ \E w \in Workers : Redeliver(w)

SpecTasks == Init /\ [][NextTasks]_vars

(* ---------------------------------------------------------------- listing *)
\* Jobs of two types and two owners created at different times and taken to
\* different statuses by one worker, and a report on them, for the list queries.
ListTypes == {"monte_carlo", "finite_element"}

NextList ==
    \/ \E u \in Users, ty \in ListTypes, d \in ParamDocs : CreateJob(u, ty, d)
    \/ \E u \in Users, j \in JobIds : CancelJob(u, j)
    \/ \E u \in Users, ids \in JobIdLists, rt \in ReportTypes, f \in OutputFormats :
          CreateReport(u, ids, rt, f)
    \/ \E m \in Messages : Receive("w1", m)
    \/ \E w \in Workers : SimStart(w)
    \/ \E w \in Workers, d \in SimResults : SimSaveResult(w, d)
    \/ Tick

SpecList == Init /\ [][NextList]_vars

(* ------------------------------------------------------- blob store adapter *)
\* The adapter on its own: objects are uploaded under a few keys and deleted.
BlobKeys ==
    {build_simulation_key("u1", j, "result.json") : j \in JobIds}
       \cup {build_report_key("u1", r, "report.json") : r \in ReportIds}

UploadJson(key, data) ==
    /\ blob' = upload_json(blob, key, data)
    /\ UNCHANGED <<jobs, reports, queue, workers, now, delivered, redelivered,
                   cancel_ok, registry, calls, submitted, exhausted,
                   users, requests>>

DeleteBlob(key, fault) ==
    /\ blob' = delete(blob, key, fault).blob
    /\ UNCHANGED <<jobs, reports, queue, workers, now, delivered, redelivered,
                   cancel_ok, registry, calls, submitted, exhausted,
                   users, requests>>

NextBlob ==
    \/ \E key \in BlobKeys, d \in ResultDocs \cup BoundaryDocs : UploadJson(key, d)
    \/ \E key \in BlobKeys, fault \in BOOLEAN : DeleteBlob(key, fault)

SpecBlob == Init /\ [][NextBlob]_vars

(* ------------------------------------------------------------ registration *)
\* register_user, first half: the handler looks the email up and answers
\* 409 Conflict if a user has it.
RegisterCheck(r, email) ==
    /\ requests[r].pc \in {"idle", "done"}
    /\ requests' = [requests EXCEPT ![r] =
                       IF get_user_by_email(users, email) # {}
                       THEN Request("done", email, "Conflict")
                       ELSE Request("checked", email, NullStr)]
    /\ UNCHANGED <<jobs, reports, blob, queue, workers, now, delivered, redelivered,
                   cancel_ok, registry, calls, submitted, exhausted, users>>

\* register_user, second half: create_user; the row is returned with 201
\* Created, and an IntegrityError of the commit, which nothing catches, is
\* answered 500 Internal Server Error.
RegisterCreate(r) ==
    /\ requests[r].pc = "checked"
    /\ LET res == create_user(users, requests[r].email, Cardinality(DOMAIN users) + 1)
       IN  /\ users' = res.users
           /\ requests' = [requests EXCEPT ![r] =
                              Request("done", requests[r].email,
                                      IF res.error = "" THEN "Created"
                                      ELSE "InternalServerError")]
    /\ UNCHANGED <<jobs, reports, blob, queue, workers, now, delivered, redelivered,
                   cancel_ok, registry, calls, submitted, exhausted>>

NextAuth ==
    \/ \E r \in Requests, e \in Emails : RegisterCheck(r, e)
    \/ \E r \in Requests : RegisterCreate(r)

SpecAuth == Init /\ [][NextAuth]_vars

(* ------------------------------------------------ the tasks run to an end *)
\* The task body ends: the handler returned and save_result committed, or
\* something raised and the except block ran.
SimFinish(w) ==
    \/ \E d \in SimResults : SimSaveResult(w, d)
    \/ \E e \in ErrorMessages : SimExcept(w, e)

RepFinish(w) ==
    \/ RepSaveFile(w)
    \/ \E e \in ErrorMessages : RepExcept(w, e)

\* One job and one report of one user, through both tasks with every retry,
\* a lost worker and a redelivery.
NextLive ==
    \/ \E d \in ParamDocs : DOMAIN jobs = {} /\ CreateJob("u1", "monte_carlo", d)
    \/ CancelJob("u1", 1)
    \/ DOMAIN reports = {} /\ CreateReport("u1", <<1>>, "summary", "PDF")
    \/ \E w \in Workers, m \in Messages : Take(w, m)
    \/ \E w \in Workers : SimStart(w)
    \/ \E w \in Workers, p \in ProgressValues : SimProgress(w, p)
    \/ \E w \in Workers : SimFinish(w)
    \/ \E w \in Workers : RepStart(w)
    \/ \E w \in Workers : RepFinish(w)
    \/ \E w \in Workers : WorkerLost(w)
    \/ \E w \in Workers : Redeliver(w)

\* The broker hands a waiting message to an idle worker, and a task that has
\* been entered runs its body to the return or to the except block.
Fairness ==
    /\ WF_vars(\E w \in Workers, m \in Messages : Take(w, m))
    /\ \A w \in Workers : WF_vars(SimStart(w))
    /\ \A w \in Workers : WF_vars(SimFinish(w))
    /\ \A w \in Workers : WF_vars(RepStart(w))
    /\ \A w \in Workers : WF_vars(RepFinish(w))

SpecLive == Init /\ [][NextLive]_vars /\ Fairness

(* ------------------------------------------- create_job, statement by statement *)
\* A create request in flight: the statement its handler has reached, the
\* kind of record, the id of the new row, and the row as the request's
\* session holds it. Before the commit the row is in the session only.
ApiCall(pc, kind, id, row, parameters) ==
    [pc |-> pc, kind |-> kind, id |-> id, row |-> row, parameters |-> parameters]

\* The ids of the rows that the sessions of create_job requests hold.
HeldJobIds == {requests[r].id : r \in {q \in Requests : requests[q].pc # "idle"}}

\* create_job that commits where the source only flushes to get the id.
CreateJobFlush_commits(r, user_id, simulation_type, parameters) ==
    /\ requests[r].pc \in {"idle", "raised"}
    /\ \E job_id \in JobIds \ (DOMAIN jobs \cup HeldJobIds) :
          /\ \A k \in JobIds \ (DOMAIN jobs \cup HeldJobIds) : job_id <= k
          /\ requests' = [requests EXCEPT ![r] =
                             ApiCall("flushed", "job", job_id,
                                     NewJob(user_id, simulation_type, now), parameters)]
          /\ jobs' = PutJob(jobs, job_id, NewJob(user_id, simulation_type, now))
    /\ UNCHANGED <<reports, blob, queue, workers, now, delivered, redelivered,
                   cancel_ok, registry, calls, submitted, exhausted, users>>

\* create_job that enqueues the task as soon as the flush has given the id.
CreateJobFlush_enqueues(r, user_id, simulation_type, parameters) ==
    /\ requests[r].pc \in {"idle", "raised"}
    /\ \E job_id \in JobIds \ (DOMAIN jobs \cup HeldJobIds) :
          /\ \A k \in JobIds \ (DOMAIN jobs \cup HeldJobIds) : job_id <= k
          /\ requests' = [requests EXCEPT ![r] =
                             ApiCall("flushed", "job", job_id,
                                     NewJob(user_id, simulation_type, now), parameters)]
          /\ queue' = Enqueue(queue, Msg("process_simulation", job_id, 0))
    /\ UNCHANGED <<jobs, reports, blob, workers, now, delivered, redelivered,
                   cancel_ok, registry, calls, submitted, exhausted, users>>

\* create_job up to the flush: the row is added to the session and gets its
\* id (a uuid4, here the least id no row has).
CreateJobFlush(r, user_id, simulation_type, parameters) ==
    /\ requests[r].pc \in {"idle", "raised"}
    /\ \E job_id \in JobIds \ (DOMAIN jobs \cup HeldJobIds) :
          /\ \A k \in JobIds \ (DOMAIN jobs \cup HeldJobIds) : job_id <= k
          /\ requests' = [requests EXCEPT ![r] =
                             ApiCall("flushed", "job", job_id,
                                     NewJob(user_id, simulation_type, now), parameters)]
    /\ UNCHANGED <<jobs, reports, blob, queue, workers, now, delivered, redelivered,
                   cancel_ok, registry, calls, submitted, exhausted, users>>

\* create_job places the parameters: inline, or by upload_json with the
\* placeholder and the key in the row. With `fault` the upload raises
\* ClientError: create_job is left by the exception, and the session is
\* closed with its row uncommitted.
CreateJobParams(r, fault) ==
    /\ requests[r].pc = "flushed"
    /\ LET call == requests[r]
           res == create_job(jobs, blob, call.row.user_id, call.row.simulation_type,
                             call.parameters, call.id, call.row.created_at)
           uploads == res.blob # blob
       IN  IF fault /\ uploads
           THEN /\ requests' = [requests EXCEPT ![r].pc = "raised"]
                /\ blob' = blob
           ELSE /\ ~fault
                /\ requests' = [requests EXCEPT ![r].pc = "placed",
                                                ![r].row = res.jobs[call.id]]
                /\ blob' = res.blob
    /\ UNCHANGED <<jobs, reports, queue, workers, now, delivered, redelivered,
                   cancel_ok, registry, calls, submitted, exhausted, users>>

\* create_job: db.commit() and db.refresh(job).
CreateJobCommit(r) ==
    /\ requests[r].pc = "placed"
    /\ jobs' = PutJob(jobs, requests[r].id, requests[r].row)
    /\ requests' = [requests EXCEPT ![r].pc = "committed"]
    /\ UNCHANGED <<reports, blob, queue, workers, now, delivered, redelivered,
                   cancel_ok, registry, calls, submitted, exhausted, users>>

\* create_report up to its commit: the validation of the referenced jobs, the
\* row and db.commit(). A failed validation raises and nothing is written.
CreateReportCommit(r, user_id, ids, report_type, output_format) ==
    /\ requests[r].pc \in {"idle", "raised"}
    /\ DOMAIN reports = {}
    /\ LET res == create_report(jobs, reports, user_id, ids, report_type,
                                output_format, 1, now)
       IN  /\ reports' = res.reports
           /\ requests' = [requests EXCEPT ![r] =
                              IF res.enqueued
                              THEN ApiCall("committed", "report", 1, res.reports[1],
                                           EmptyDict)
                              ELSE NoRequest]
    /\ UNCHANGED <<jobs, blob, queue, workers, now, delivered, redelivered,
                   cancel_ok, registry, calls, submitted, exhausted, users>>

\* _enqueue_job and _enqueue_report: the last statement of both creates.
CreateEnqueue(r) ==
    /\ requests[r].pc = "committed"
    /\ queue' = Enqueue(queue, Msg(IF requests[r].kind = "job"
                                   THEN "process_simulation" ELSE "generate_report",
                                   requests[r].id, 0))
    /\ requests' = [requests EXCEPT ![r] = NoRequest]
    /\ UNCHANGED <<jobs, reports, blob, workers, now, delivered, redelivered,
                   cancel_ok, registry, calls, submitted, exhausted, users>>

\* Two API workers create jobs and a report while the task workers run them
\* to completion, with a redelivery.
NextCreate ==
    \/ \E r \in Requests, u \in Users, d \in BoundaryDocs :
          CreateJobFlush(r, u, "monte_carlo", d)
    \/ \E r \in Requests, fault \in BOOLEAN : CreateJobParams(r, fault)
    \/ \E r \in Requests : CreateJobCommit(r)
    \/ \E r \in Requests : CreateReportCommit(r, "u1", <<1>>, "summary", "PDF")
    \/ \E r \in Requests : CreateEnqueue(r)
    \/ \E w \in Workers, m \in Messages : Deliver(w, m)
    \/ \E w \in Workers : SimStart(w)
    \/ \E w \in Workers, d \in SimResults : SimSaveResult(w, d)
    \/ \E w \in Workers : RepStart(w)
    \/ \E w \in Workers : RepSaveFile(w)
    \/ \E w \in Workers : Redeliver(w)

SpecCreate == Init /\ [][NextCreate]_vars

(* ------------------------------------------------------------- the claims *)
Terminal == {COMPLETED, FAILED, CANCELLED}
Owner(j) == jobs[j].user_id

\* C1: once a job's status is COMPLETED, FAILED or CANCELLED, no later step
\* changes its status.
C1_TerminalIsFinal ==
    [][\A j \in DOMAIN jobs :
          jobs[j].status \in Terminal => jobs'[j].status = jobs[j].status]_vars

\* C2: a job for which cancel_job has succeeded is never afterwards reported
\* as COMPLETED by get_job or get_job_result called by its owner.
C2_CancelledNeverCompleted ==
    \A j \in cancel_ok :
        /\ get_job(jobs, Owner(j), j).job.status # COMPLETED
        /\ get_job_result(jobs, blob, Owner(j), j).status # COMPLETED

\* C3: a job carries a result reference if and only if its status is COMPLETED.
C3_ResultKeyIffCompleted ==
    \A j \in DOMAIN jobs :
        (jobs[j].result_s3_key # NoKey) <=> (jobs[j].status = COMPLETED)

\* C10: progress is null unless the status is RUNNING or COMPLETED, and is 1.0
\* whenever the status is COMPLETED.
C10_ProgressOnlyWhileRunningOrCompleted ==
    \A j \in DOMAIN jobs :
        /\ (jobs[j].progress # NULL => jobs[j].status \in {RUNNING, COMPLETED})
        /\ (jobs[j].status = COMPLETED => jobs[j].progress = ProgressOne)

\* C4: immediately after save_result(job_id, doc), whatever the job's status
\* was, the job is COMPLETED with progress 1.0 and completed_at set, and its
\* result reference exists in the blob store and resolves, through
\* get_job_result by the owner, to exactly doc.
C4_SaveResultPostcondition ==
    \A j \in DOMAIN jobs, d \in ResultDocs :
        LET r == save_result(jobs, blob, j, d, now)
            job == r.jobs[j]
            view == get_job_result(r.jobs, r.blob, job.user_id, j)
        IN  /\ job.status = COMPLETED
            /\ job.progress = ProgressOne
            /\ job.completed_at # NULL
            /\ job.result_s3_key # NoKey
            /\ exists(r.blob, job.result_s3_key)
            /\ view.error = ""
            /\ view.status = COMPLETED
            /\ view.result = d

\* save_result has completed a job that had been cancelled, and has replaced
\* an earlier result of a job by a different document.
C4_Witness ==
    /\ \E j \in cancel_ok :
          /\ jobs[j].status = COMPLETED
          /\ get_job_result(jobs, blob, Owner(j), j).result \in ResultDocs
    /\ \E j \in DOMAIN jobs :
          /\ jobs[j].status = COMPLETED
          /\ get_job_result(jobs, blob, Owner(j), j).result = Doc(2, 0)

\* C5: every step in which a job's status becomes COMPLETED is a save_result
\* step of a worker running that job.
C5_OnlySaveResultCompletes ==
    [][\A j \in DOMAIN jobs' :
          (/\ jobs'[j].status = COMPLETED
           /\ (j \in DOMAIN jobs => jobs[j].status # COMPLETED))
          => \E w \in Workers, d \in ResultDocs :
                /\ workers[w].pc = "execute"
                /\ JobOf(w) = j
                /\ SimSaveResult(w, d)]_vars

\* A job has become COMPLETED after it had been started, cancelled, failed.
C5_Witness ==
    \E j \in cancel_ok :
        /\ jobs[j].status = COMPLETED
        /\ jobs[j].error_code = "SIMULATION_ERROR"

\* C6: cancel_job by the owner on a PENDING or RUNNING job succeeds, leaves
\* the job CANCELLED with completed_at set, and changes no other field of the
\* job and no other job.
C6_CancelPendingOrRunning ==
    \A j \in DOMAIN jobs :
        jobs[j].status \in {PENDING, RUNNING} =>
            LET r == cancel_job(jobs, Owner(j), j, now)
            IN  /\ r.error.error = ""
                /\ DOMAIN r.jobs = DOMAIN jobs
                /\ r.jobs[j].status = CANCELLED
                /\ r.jobs[j].completed_at # NULL
                /\ \A f \in DOMAIN jobs[j] \ {"status", "completed_at"} :
                      r.jobs[j][f] = jobs[j][f]
                /\ \A k \in DOMAIN jobs \ {j} : r.jobs[k] = jobs[k]

\* A RUNNING job with reported progress has been cancelled by its owner.
C6_Witness ==
    \E j \in cancel_ok :
        /\ jobs[j].status = CANCELLED
        /\ jobs[j].progress \in ProgressValues
        /\ jobs[j].started_at # NULL

\* C7: cancel_job by the owner on a COMPLETED, FAILED or CANCELLED job fails
\* with an error that names the current status and changes no record.
C7_CancelTerminalRejected ==
    \A j \in DOMAIN jobs :
        jobs[j].status \in Terminal =>
            LET r == cancel_job(jobs, Owner(j), j, now)
            IN  /\ r.error.error = "ValueError"
                /\ r.error.message[2] = jobs[j].status
                /\ r.jobs = jobs

\* A cancelled job is cancelled again at a later time, while another job of
\* the state is COMPLETED or FAILED.
C7_Witness ==
    /\ \E j \in cancel_ok :
          /\ jobs[j].status = CANCELLED
          /\ jobs[j].completed_at < now
          /\ cancel_job(jobs, Owner(j), j, now).error.error = "ValueError"
    /\ \E j \in DOMAIN jobs : jobs[j].status \in {COMPLETED, FAILED}

\* The positions of `ids` whose job is absent, another user's, or not COMPLETED.
BadRefs(user_id, ids) ==
    {i \in 1..Len(ids) :
        \/ ids[i] \notin DOMAIN jobs
        \/ jobs[ids[i]].user_id # user_id
        \/ jobs[ids[i]].status # COMPLETED}
FirstBad(user_id, ids) ==
    CHOOSE i \in BadRefs(user_id, ids) : \A k \in BadRefs(user_id, ids) : i <= k

\* C8, the call: create_report with a referenced job that is absent, another
\* user's or not COMPLETED fails naming the first such id in list order,
\* persists no report and enqueues nothing.
C8_FailedCreateReport ==
    \A u \in Users, ids \in JobIdLists, rt \in ReportTypes, f \in OutputFormats,
       rid \in ReportIds :
        BadRefs(u, ids) # {} =>
            LET r == create_report(jobs, reports, u, ids, rt, f, rid, now)
            IN  /\ r.error.error \in {"NotFound", "SimulationNotCompleted"}
                /\ r.error.id = ids[FirstBad(u, ids)]
                /\ r.reports = reports
                /\ ~r.enqueued

\* C8, the step: a report row appears, and generation work is enqueued, only
\* together and only when every referenced job exists, belongs to the
\* report's owner and is COMPLETED at that moment.
C8_PersistedOnlyWhenValid ==
    /\ \A rid \in DOMAIN reports' \ DOMAIN reports :
          /\ BadRefs(reports'[rid].user_id, reports'[rid].simulation_job_ids) = {}
          /\ reports'[rid].status = PENDING
          /\ queue'[Msg("generate_report", rid, 0)]
                = queue[Msg("generate_report", rid, 0)] + 1
    /\ \A rid \in ReportIds :
          queue'[Msg("generate_report", rid, 0)]
             > queue[Msg("generate_report", rid, 0)]
          => rid \in DOMAIN reports' \ DOMAIN reports
    /\ \A rid \in DOMAIN reports : reports'[rid] = reports[rid]

\* C8: create_report is atomic on validation.
C8_CreateReportAtomic ==
    []C8_FailedCreateReport /\ [][C8_PersistedOnlyWhenValid]_vars

\* A report has been created, and a user owns a COMPLETED job A and a job B
\* that is not COMPLETED, so that create_report([A, B]) fails naming B.
C8_Witness ==
    /\ DOMAIN reports # {}
    /\ \E a \in DOMAIN jobs, b \in DOMAIN jobs :
          /\ Owner(a) = Owner(b)
          /\ jobs[a].status = COMPLETED
          /\ jobs[b].status \in {PENDING, RUNNING, FAILED, CANCELLED}
          /\ \A rt \in ReportTypes, f \in OutputFormats :
                create_report(jobs, reports, Owner(a), <<a, b>>, rt, f, 1, now).error
                   = [error |-> "SimulationNotCompleted", id |-> b]

\* The rows without row k.
Without(T, k) == [x \in DOMAIN T \ {k} |-> T[x]]

\* C9: for a caller u and an id whose job (report) belongs to another user,
\* get_job, get_job_result, cancel_job, create_report and get_report answer
\* exactly as they do in the state that differs only in that the row does not
\* exist; the answer to a direct lookup is NotFound, and cancel_job changes
\* nothing.
C9_ForeignLooksAbsent ==
    /\ \A u \in Users, j \in DOMAIN jobs :
          Owner(j) # u =>
            LET gone == Without(jobs, j)
            IN  /\ get_job(jobs, u, j) = get_job(gone, u, j)
                /\ get_job(jobs, u, j).error = "NotFound"
                /\ get_job_result(jobs, blob, u, j) = get_job_result(gone, blob, u, j)
                /\ get_job_result(jobs, blob, u, j).error = "NotFound"
                /\ cancel_job(jobs, u, j, now).error = cancel_job(gone, u, j, now).error
                /\ cancel_job(jobs, u, j, now).error.error = "NotFound"
                /\ cancel_job(jobs, u, j, now).jobs = jobs
                /\ \A ids \in JobIdLists, rt \in ReportTypes, f \in OutputFormats,
                      rid \in ReportIds :
                      /\ create_report(jobs, reports, u, ids, rt, f, rid, now).error
                            = create_report(gone, reports, u, ids, rt, f, rid, now).error
                      /\ create_report(jobs, reports, u, ids, rt, f, rid, now).error.error
                            # "Forbidden"
    /\ \A u \in Users, r \in DOMAIN reports :
          reports[r].user_id # u =>
              /\ get_report(reports, u, r) = get_report(Without(reports, r), u, r)
              /\ get_report(reports, u, r).error = "NotFound"

\* One user owns a COMPLETED job and a report; the other user asks for them.
C9_Witness ==
    \E u \in Users, j \in DOMAIN jobs, r \in DOMAIN reports :
        /\ Owner(j) # u
        /\ reports[r].user_id # u
        /\ jobs[j].status = COMPLETED
        /\ get_job(jobs, u, j).error = "NotFound"
        /\ get_job(jobs, Owner(j), j).error = ""

\* C11: in every reachable state and for every job, error_code and
\* error_message are present only if the status is FAILED.
C11_ErrorFieldsOnlyWhenFailed ==
    \A j \in DOMAIN jobs :
        jobs[j].status # FAILED =>
            /\ jobs[j].error_code = NullStr
            /\ jobs[j].error_message = NullStr

\* C12: a unit of work whose execution raises every time is executed at most
\* 3 times: the attempt a worker is executing (its retries so far plus one)
\* is never beyond the third.
C12_AtMostThreeAttempts ==
    \A w \in Workers :
        workers[w].pc \in {"execute", "generate"} => workers[w].msg.retries + 1 <= 3

\* C13: once the retries of a unit of work are exhausted, its job or report
\* is FAILED and stays FAILED.
C13_ExhaustedStaysFailed ==
    \A u \in exhausted :
        IF u.task = "process_simulation"
        THEN jobs[u.id].status = FAILED
        ELSE reports[u.id].status = FAILED

\* C14: an attempt that raises leaves the job (report) FAILED with the fixed
\* error code and the message of the exception it raised (nothing stored
\* counts as the empty message).
C14_FailurePersisted ==
    [][\A w \in Workers, e \in TaskErrors :
          /\ SimExcept(w, e) =>
                /\ jobs'[JobOf(w)].status = FAILED
                /\ jobs'[JobOf(w)].error_code = "SIMULATION_ERROR"
                /\ \/ jobs'[JobOf(w)].error_message = e
                   \/ e = "" /\ jobs'[JobOf(w)].error_message = NullStr
          /\ RepExcept(w, e) =>
                /\ reports'[ReportOf(w)].status = FAILED
                /\ reports'[ReportOf(w)].error_code = "REPORT_ERROR"
                /\ \/ reports'[ReportOf(w)].error_message = e
                   \/ e = "" /\ reports'[ReportOf(w)].error_message = NullStr]_vars

\* C20: a run of generate_report that starts while a referenced job is not
\* COMPLETED fails: the handler is not entered and the report is FAILED.
C20_ReportRunFailsOnUnfinishedJob ==
    [][\A w \in Workers :
          (/\ RepStart(w)
           /\ \E i \in DOMAIN reports[ReportOf(w)].simulation_job_ids :
                 jobs[reports[ReportOf(w)].simulation_job_ids[i]].status # COMPLETED)
          => /\ workers'[w].pc = "idle"
             /\ reports'[ReportOf(w)].status = FAILED]_vars

\* The handler that the calls of the log leave registered for `tag` in registry
\* `kind`, reading the first i calls from the last one back.
RECURSIVE LastRegistered(_, _, _, _)
LastRegistered(log, kind, tag, i) ==
    IF i = 0 THEN NullStr
    ELSE IF log[i].kind = kind /\ log[i].op = "clear" THEN NullStr
    ELSE IF log[i].kind = kind /\ log[i].tag = tag
    THEN (IF log[i].op = "register" THEN log[i].handler ELSE NullStr)
    ELSE LastRegistered(log, kind, tag, i - 1)

\* C15: a run of process_simulation enters the handler registered for the
\* job's type at the moment of the lookup, or the default handler when there
\* is none, with the document the job was created with; a run of the default
\* handler that saves its result leaves the job COMPLETED with a stored result
\* that echoes that document.
C15_DispatchByType ==
    [][\A w \in Workers :
          /\ SimStart(w) =>
                /\ workers'[w].handler
                      = LastRegistered(calls, "simulation",
                                       jobs[JobOf(w)].simulation_type, Len(calls))
                /\ workers'[w].parameters = submitted[JobOf(w)]
          /\ \A d \in SimResults :
                (workers[w].handler = NullStr /\ SimSaveResult(w, d)) =>
                    /\ jobs'[JobOf(w)].status = COMPLETED
                    /\ download_json(blob', jobs'[JobOf(w)].result_s3_key)
                          .input_parameters = submitted[JobOf(w)]
          /\ \A d \in SimResults :
                (workers[w].handler # NullStr /\ SimSaveResult(w, d)) =>
                    download_json(blob', jobs'[JobOf(w)].result_s3_key) \in ResultDocs]_vars

\* A handler was registered for the job's type and unregistered again, and the
\* job, whose parameters are in the blob store, was completed by the default
\* handler.
C15_Witness ==
    /\ \E i \in DOMAIN calls : calls[i].op = "register" /\ calls[i].tag = "monte_carlo"
    /\ \E i \in DOMAIN calls : calls[i].op = "unregister" /\ calls[i].tag = "monte_carlo"
    /\ \E j \in DOMAIN jobs :
          /\ jobs[j].status = COMPLETED
          /\ jobs[j].parameters_s3_key # NoKey
          /\ download_json(blob, jobs[j].result_s3_key)
                = default_simulation_handler("monte_carlo", submitted[j])

\* C16: in each registry, get_handler(tag) is the handler of the most recent
\* register(tag, .) not followed by unregister(tag) or clear(), and None
\* otherwise; unregistering an absent tag changes nothing; list_handlers is
\* the set of tags whose get_handler is not None.
C16_RegistryLastWriteWins ==
    \A k \in Registries :
        /\ \A t \in RegistryTags :
              /\ get_handler(registry[k], t) = LastRegistered(calls, k, t, Len(calls))
              /\ get_handler(registry[k], t) = NullStr
                    => unregister(registry[k], t) = registry[k]
        /\ list_handlers(registry[k])
              = {t \in RegistryTags : get_handler(registry[k], t) # NullStr}

\* A tag was registered twice with different handlers, and an absent tag was
\* then unregistered.
C16_Witness ==
    /\ Len(calls) = 3
    /\ calls[1] = Call("register", "simulation", "monte_carlo", "h1")
    /\ calls[2] = Call("register", "simulation", "monte_carlo", "h2")
    /\ calls[3] = Call("unregister", "simulation", "summary", NullStr)
    /\ get_handler(registry.simulation, "monte_carlo") = "h2"
    /\ list_handlers(registry.report) = {}

\* The key of the parameters document of job j.
ParametersKey(j) == <<"simulations", jobs[j].user_id, j, "parameters.json">>
Oversize(d) == ByteLen(json_dumps(d)) > PARAMETERS_SIZE_THRESHOLD

\* C17: a job's parameters document is in the blob store under
\* simulations/{owner}/{job}/parameters.json, with only that key and the
\* placeholder in the record, iff its serialized size is strictly greater
\* than the threshold; otherwise it is inline, with no key and no blob.
C17_PlacementByThreshold ==
    \A j \in DOMAIN jobs :
        IF Oversize(submitted[j])
        THEN /\ jobs[j].parameters_s3_key = ParametersKey(j)
             /\ jobs[j].parameters = Placeholder
             /\ exists(blob, ParametersKey(j))
             /\ download_json(blob, ParametersKey(j)) = submitted[j]
        ELSE /\ jobs[j].parameters_s3_key = NoKey
             /\ jobs[j].parameters = submitted[j]
             /\ ~exists(blob, ParametersKey(j))

\* One job was created with a document of exactly the threshold size, another
\* with a document one byte larger.
C17_Witness ==
    \E a \in DOMAIN jobs, b \in DOMAIN jobs :
        /\ ByteLen(json_dumps(submitted[a])) = PARAMETERS_SIZE_THRESHOLD
        /\ jobs[a].parameters_s3_key = NoKey
        /\ ByteLen(json_dumps(submitted[b])) = PARAMETERS_SIZE_THRESHOLD + 1
        /\ jobs[b].parameters_s3_key # NoKey

\* C18: get_job_parameters returns the document the job was created with, at
\* every point of the job's lifecycle.
C18_ParametersRoundTrip ==
    \A j \in DOMAIN jobs : get_job_parameters(blob, jobs[j]) = submitted[j]

\* A job with its parameters in the store has been started and cancelled, and
\* a job with inline parameters has been completed.
C18_Witness ==
    \E a \in DOMAIN jobs, b \in DOMAIN jobs :
        /\ Oversize(submitted[a])
        /\ jobs[a].status = CANCELLED
        /\ jobs[a].started_at # NULL
        /\ ~Oversize(submitted[b])
        /\ jobs[b].status = COMPLETED
        /\ get_job_parameters(blob, jobs[b]) = submitted[b]

\* C19, the state: either the storage reference is unset and the inline field
\* holds the submitted document, or it is set and the inline field holds the
\* placeholder.
C19_OneSource ==
    \A j \in DOMAIN jobs :
        \/ /\ jobs[j].parameters_s3_key = NoKey
           /\ jobs[j].parameters = submitted[j]
        \/ /\ jobs[j].parameters_s3_key # NoKey
           /\ jobs[j].parameters = Placeholder

\* C19, the step: no operation changes either field of an existing job.
C19_FieldsFixed ==
    \A j \in DOMAIN jobs :
        /\ j \in DOMAIN jobs'
        /\ jobs'[j].parameters = jobs[j].parameters
        /\ jobs'[j].parameters_s3_key = jobs[j].parameters_s3_key

\* C19: exactly one source of a job's parameters is authoritative, and no
\* operation after create_job changes either field.
C19_OneAuthoritativeSource ==
    []C19_OneSource /\ [][C19_FieldsFixed]_vars

\* A job with its parameters by reference has been started, has reported
\* progress and has been completed.
C19_Witness ==
    \E j \in DOMAIN jobs :
        /\ jobs[j].parameters_s3_key # NoKey
        /\ jobs[j].status = COMPLETED
        /\ jobs[j].started_at # NULL

\* C21: in every reachable state and for every report, the result fields
\* (s3_key, content_type, size_bytes) are present if and only if the status
\* is COMPLETED.
C21_ReportResultIffCompleted ==
    \A r \in DOMAIN reports :
        /\ reports[r].status = COMPLETED
              <=> reports[r].s3_key # NoKey
        /\ reports[r].status = COMPLETED
              <=> reports[r].content_type # NullStr
        /\ reports[r].status = COMPLETED
              <=> reports[r].size_bytes # NULL

\* C22: every report is created PENDING, the first change of its status is to
\* GENERATING, and once its status is COMPLETED or FAILED no later step
\* changes it.
C22_ReportLifecycle ==
    [][/\ \A r \in DOMAIN reports' \ DOMAIN reports : reports'[r].status = PENDING
       /\ \A r \in DOMAIN reports :
             /\ reports[r].status = PENDING
                   => reports'[r].status \in {PENDING, GENERATING}
             /\ reports[r].status \in {COMPLETED, FAILED}
                   => reports'[r].status = reports[r].status]_vars

\* The steps in which a task calls save_result for job j.
SavesResult(j) ==
    \E w \in Workers, d \in SimResults : JobOf(w) = j /\ SimSaveResult(w, d)

\* C23: get_job_result by the owner returns a result document iff the job is
\* COMPLETED at the time of the call, and otherwise the status-only view (job
\* id, status, message); the document is the one most recently stored by
\* save_result: the one just saved after a step that saves, and the one
\* returned before after any other step.
C23_ResultIffCompleted ==
    [][\A j \in DOMAIN jobs' :
          LET after == get_job_result(jobs', blob', jobs'[j].user_id, j)
          IN  /\ after.error = ""
              /\ jobs'[j].status = COMPLETED <=> "result" \in DOMAIN after
              /\ jobs'[j].status # COMPLETED =>
                    after = [error |-> "", job_id |-> j, status |-> jobs'[j].status,
                             message |-> <<"Simulation is", jobs'[j].status>>]
              /\ \A w \in Workers, d \in SimResults :
                    (JobOf(w) = j /\ SimSaveResult(w, d)) => after.result = d
              /\ (/\ j \in DOMAIN jobs
                  /\ ~SavesResult(j)
                  /\ jobs[j].status = COMPLETED
                  /\ jobs'[j].status = COMPLETED)
                 => after.result = get_job_result(jobs, blob, Owner(j), j).result]_vars

\* A run delivered a second time has put a job that has a stored result back
\* to RUNNING, and its owner gets the status-only view.
C23_Witness ==
    \E a \in DOMAIN jobs :
        /\ jobs[a].status = RUNNING
        /\ jobs[a].result_s3_key # NoKey
        /\ "result" \notin DOMAIN get_job_result(jobs, blob, Owner(a), a)

\* C24: the response of get_report_with_url to the owner has a download URL
\* iff the report is COMPLETED at the time of the call, and then the URL is
\* generated for the report's file with the configured expiry, with the expiry
\* timestamp computed from the same expiry, the content type and the size; it
\* has the error code and message iff the report is FAILED; it has neither for
\* PENDING and GENERATING.
C24_DownloadIffCompleted ==
    \A r \in DOMAIN reports :
        LET report == reports[r]
            view == get_report_with_url(reports, report.user_id, r, now)
        IN  /\ view.error = ""
            /\ view.status = report.status
            /\ report.status = COMPLETED <=> "download_url" \in DOMAIN view
            /\ report.status = COMPLETED =>
                  /\ view.download_url
                        = generate_presigned_url(report.s3_key, PRESIGNED_URL_EXPIRY)
                  /\ exists(blob, view.download_url.key)
                  /\ view.url_expires_at = now + PRESIGNED_URL_EXPIRY
                  /\ view.content_type = report.content_type
                  /\ view.size_bytes = Len(blob[view.download_url.key])
            /\ report.status # COMPLETED =>
                  {"url_expires_at", "content_type", "size_bytes"} \cap DOMAIN view = {}
            /\ report.status = FAILED <=> "error_detail" \in DOMAIN view
            /\ report.status = FAILED =>
                  view.error_detail = [code |-> report.error_code,
                                       message |-> report.error_message]

\* A report that was COMPLETED has been taken up again by a second delivery
\* and has FAILED: it still has its file key, and the response has the error
\* and no download URL.
C24_Witness ==
    \E r \in DOMAIN reports :
        /\ reports[r].status = FAILED
        /\ reports[r].s3_key # NoKey
        /\ "error_detail" \in DOMAIN get_report_with_url(reports, reports[r].user_id, r, now)
        /\ "download_url" \notin DOMAIN get_report_with_url(reports, reports[r].user_id, r, now)

\* A filter of a list query is given when it is neither None nor empty.
Given(f) == f \notin {NullStr, ""}

\* `res` is a page of the rows M of table T: rows of M without repetition,
\* newest-created first, exactly as many as remain after `offset` rows up to
\* `limit`, where the rows left out are `offset` rows at least as new as every
\* row returned (all of M when it has no more) and rows at most as old.
IsPage(T, M, res, limit, offset) ==
    LET returned == {res[i] : i \in DOMAIN res}
        rest == M \ returned
        size == Cardinality(M)
    IN  /\ returned \subseteq M
        /\ \A i, k \in DOMAIN res : i # k => res[i] # res[k]
        /\ \A i, k \in DOMAIN res : i < k => T[res[i]].created_at >= T[res[k]].created_at
        /\ Len(res) = IF size - offset < limit
                      THEN (IF size > offset THEN size - offset ELSE 0)
                      ELSE limit
        /\ \E skipped \in SUBSET rest :
              /\ Cardinality(skipped) = IF size > offset THEN offset ELSE size
              /\ \A a \in skipped, b \in returned : T[a].created_at >= T[b].created_at
              /\ \A a \in rest \ skipped, b \in returned :
                    T[a].created_at <= T[b].created_at

C26_Stamped ==
    \A j \in DOMAIN jobs :
        /\ jobs[j].status \in Terminal => jobs[j].completed_at # NULL
        /\ jobs[j].status = RUNNING => jobs[j].started_at # NULL
        /\ jobs[j].status = PENDING => jobs[j].started_at = NULL

\* C26, the step: started_at is set by an update to RUNNING, to the time of
\* that update, and is never changed once set; a step that writes a job and
\* leaves it COMPLETED, FAILED or CANCELLED sets completed_at to its time.
C26_StampedOnce ==
    \A j \in DOMAIN jobs :
        /\ jobs[j].started_at # NULL => jobs'[j].started_at = jobs[j].started_at
        /\ (jobs[j].started_at = NULL /\ jobs'[j].started_at # NULL)
              => jobs'[j].status = RUNNING /\ jobs'[j].started_at = now
        /\ (jobs'[j] # jobs[j] /\ jobs'[j].status \in Terminal)
              => jobs'[j].completed_at = now

\* C26: started_at is set at the first update to RUNNING and never changed
\* afterwards; completed_at is set by every step that makes the status
\* COMPLETED, FAILED or CANCELLED.
C26_Timestamps ==
    []C26_Stamped /\ [][C26_StampedOnce]_vars

\* A job started at time 1 has failed at time 2 and is RUNNING again in its
\* retry: started_at is still the time of the first start.
C26_Witness ==
    \E j \in DOMAIN jobs :
        /\ jobs[j].status = RUNNING
        /\ jobs[j].started_at = 1
        /\ jobs[j].completed_at = 2
        /\ jobs[j].error_code = "SIMULATION_ERROR"

C28_CreateEnqueuesOnce ==
    [][/\ \A u \in Users, ty \in ListTypes, d \in ParamDocs :
             CreateJob(u, ty, d) =>
                \E j \in JobIds \ DOMAIN jobs :
                    /\ DOMAIN jobs' = DOMAIN jobs \cup {j}
                    /\ \A k \in DOMAIN jobs : jobs'[k] = jobs[k]
                    /\ jobs'[j].user_id = u
                    /\ jobs'[j].simulation_type = ty
                    /\ jobs'[j].status = PENDING
                    /\ queue' = [queue EXCEPT ![Msg("process_simulation", j, 0)] = @ + 1]
                    /\ queue[Msg("process_simulation", j, 0)] = 0
       /\ \A u \in Users, ids \in JobIdLists, rt \in ReportTypes, f \in OutputFormats :
             (/\ CreateReport(u, ids, rt, f)
              /\ VerifyJobs(jobs, u, ids, 1).error = "")
             => \E r \in ReportIds \ DOMAIN reports :
                    /\ DOMAIN reports' = DOMAIN reports \cup {r}
                    /\ \A k \in DOMAIN reports : reports'[k] = reports[k]
                    /\ reports'[r].user_id = u
                    /\ reports'[r].simulation_job_ids = ids
                    /\ reports'[r].status = PENDING
                    /\ queue' = [queue EXCEPT ![Msg("generate_report", r, 0)] = @ + 1]
                    /\ queue[Msg("generate_report", r, 0)] = 0]_vars

\* A job and a report on an earlier job have just been created: both are
\* PENDING and the queue holds one message for each.
C28_Witness ==
    /\ DOMAIN jobs = {1, 2}
    /\ DOMAIN reports = {1}
    /\ jobs[2].status = PENDING
    /\ reports[1].status = PENDING
    /\ queue[Msg("process_simulation", 2, 0)] = 1
    /\ queue[Msg("generate_report", 1, 0)] = 1
    /\ \A m \in Messages : queue[m] > 0 =>
          m \in {Msg("process_simulation", 2, 0), Msg("generate_report", 1, 0)}

\* C29: for a key that is not in the store, get_object_size is None, exists
\* is false, and delete returns False and leaves the store as it is; a
\* second delete of a key returns False and leaves the store as the first
\* left it.
C29_MissingKey ==
    \A key \in BlobKeys, fault \in BOOLEAN :
        /\ ~exists(blob, key) =>
              /\ get_object_size(blob, key) = NULL
              /\ delete(blob, key, fault).deleted = FALSE
              /\ delete(blob, key, fault).blob = blob
        /\ LET first == delete(blob, key, FALSE)
           IN  /\ ~exists(first.blob, key)
               /\ delete(first.blob, key, fault).deleted = FALSE
               /\ delete(first.blob, key, fault).blob = first.blob

\* C30, the state: no two user records have the same email.
C30_EmailsUnique ==
    \A a, b \in DOMAIN users : users[a].email = users[b].email => a = b

\* C30, the step: a registration that ends while a user has its email is
\* answered Conflict and adds no user; any other is answered Created and adds
\* one user with the email.
C30_ConflictOrCreated ==
    \A r \in Requests :
        (requests[r].pc # "done" /\ requests'[r].pc = "done") =>
            IF get_user_by_email(users, requests'[r].email) # {}
            THEN /\ requests'[r].response = "Conflict"
                 /\ users' = users
            ELSE /\ requests'[r].response = "Created"
                 /\ \E k \in DOMAIN users' \ DOMAIN users :
                       /\ DOMAIN users' = DOMAIN users \cup {k}
                       /\ users'[k].email = requests'[r].email

\* C30: registering with an email that is already registered is rejected with
\* Conflict and creates no user record, so no two user records share an
\* email, also when two registrations of one email run concurrently.
C30_DuplicateEmailConflict ==
    []C30_EmailsUnique /\ [][C30_ConflictOrCreated]_vars

C32_CompletedHasResult ==
    /\ \A j \in DOMAIN jobs :
          jobs[j].status = COMPLETED => jobs[j].result_s3_key # NoKey
    /\ \A u \in Users, j \in JobIds :
          get_job_result(jobs, blob, u, j).error # "ResultNotFound"

\* A job completed after a failed attempt or a redelivery, and its
\* owner's get_job_result returns the stored result.
C32_Witness ==
    \E j \in DOMAIN jobs :
        /\ jobs[j].status = COMPLETED
        /\ jobs[j].error_message # NullStr \/ redelivered = 1
        /\ LET got == get_job_result(jobs, blob, jobs[j].user_id, j)
           IN  got.error = "" /\ got.status = COMPLETED /\ got.result \in ResultDocs

\* C33: under the fairness of SpecLive (waiting messages are delivered, task
\* bodies end) every created job reaches COMPLETED, FAILED or CANCELLED and
\* every created report reaches COMPLETED or FAILED, and no job stays
\* PENDING or RUNNING, and no report PENDING or GENERATING, for ever.
C33_EventuallyTerminal ==
    /\ \A j \in JobIds :
          /\ (j \in DOMAIN jobs) ~> (j \in DOMAIN jobs /\ jobs[j].status \in Terminal)
          /\ ~<>[](j \in DOMAIN jobs /\ jobs[j].status \in {PENDING, RUNNING})
    /\ \A r \in ReportIds :
          /\ (r \in DOMAIN reports)
                ~> (r \in DOMAIN reports /\ reports[r].status \in {COMPLETED, FAILED})
          /\ ~<>[](r \in DOMAIN reports /\ reports[r].status \in {PENDING, GENERATING})

\* Nothing is left to run: no message waits, no worker is busy, and the job
\* and the report that were created are in a final status after a retry.
C33_Witness ==
    /\ \A m \in Messages : queue[m] = 0
    /\ \A w \in Workers : workers[w].pc = "idle"
    /\ 1 \in DOMAIN jobs /\ jobs[1].status \in Terminal
    /\ 1 \in DOMAIN reports /\ reports[1].status \in {COMPLETED, FAILED}
    /\ exhausted # {}

\* The record a message names is persisted: get_job_by_id, or get_report_by_id,
\* finds it.
Persisted(m) ==
    IF m.task = "process_simulation"
    THEN get_job_by_id(jobs, m.id).error = ""
    ELSE get_report_by_id(reports, m.id).error = ""

\* C34: every message that waits in a queue, and every message a worker has
\* taken, names a record that is committed, so the first lookup of the task
\* finds it.
C34_EnqueuedAfterCommit ==
    /\ \A m \in Messages : queue[m] > 0 => Persisted(m)
    /\ \A w \in Workers : workers[w].pc # "idle" => Persisted(workers[w].msg)

\* A worker is at the start of the task for a job while another create_job
\* has flushed its row and not yet committed it.
C34_Witness ==
    /\ \E w \in Workers :
          workers[w].pc = "start" /\ workers[w].msg.task = "process_simulation"
    /\ \E r \in Requests : requests[r].pc \in {"flushed", "placed"}

\* A PENDING job has none of the fields that a run or a cancel sets.
C35_PendingUntouched ==
    \A j \in DOMAIN jobs :
        jobs[j].status = PENDING =>
            /\ jobs[j].started_at = NULL
            /\ jobs[j].completed_at = NULL
            /\ jobs[j].progress = NULL
            /\ jobs[j].result_s3_key = NoKey
            /\ jobs[j].result_size_bytes = NULL
            /\ jobs[j].error_code = NullStr
            /\ jobs[j].error_message = NullStr

\* No step gives PENDING to a job or a report that exists and is not PENDING.
C35_NoReentry ==
    /\ \A j \in DOMAIN jobs : jobs[j].status # PENDING => jobs'[j].status # PENDING
    /\ \A r \in DOMAIN reports :
          reports[r].status # PENDING => reports'[r].status # PENDING

\* C35: a job or report that has left PENDING never becomes PENDING again,
\* and a PENDING job has started_at, completed_at, progress, the result
\* reference and the error fields unset.
C35_PendingOnlyAtCreation == []C35_PendingUntouched /\ [][C35_NoReentry]_vars

\* A job is FAILED while its retry waits in the queue, and the report is
\* FAILED while its retry waits: both are about to be run again.
C35_Witness ==
    /\ \E j \in DOMAIN jobs, n \in 1..max_retries :
          jobs[j].status = FAILED /\ queue[Msg("process_simulation", j, n)] > 0
    /\ \E r \in DOMAIN reports, n \in 1..max_retries :
          reports[r].status = FAILED /\ queue[Msg("generate_report", r, n)] > 0

\* A COMPLETED job has started_at set.
C36_CompletedWasStarted ==
    \A j \in DOMAIN jobs : jobs[j].status = COMPLETED => jobs[j].started_at # NULL

\* No step takes a job or a report from PENDING to COMPLETED, and the step
\* that completes a job finds the RUNNING write of its run already made.
C36_NoDirectCompletion ==
    /\ \A j \in DOMAIN jobs :
          jobs[j].status # COMPLETED /\ jobs'[j].status = COMPLETED
             => jobs[j].status # PENDING /\ jobs[j].started_at # NULL
    /\ \A r \in DOMAIN reports :
          reports[r].status # COMPLETED /\ reports'[r].status = COMPLETED
             => reports[r].status # PENDING

\* C36: a job is COMPLETED only after the task has written RUNNING, and a
\* report only after GENERATING: a COMPLETED job has started_at set and no
\* step goes from PENDING to COMPLETED.
C36_RunningBeforeCompleted == []C36_CompletedWasStarted /\ [][C36_NoDirectCompletion]_vars

\* The job and the report have both been completed by their tasks.
C36_Witness ==
    /\ \E j \in DOMAIN jobs : jobs[j].status = COMPLETED /\ jobs[j].started_at # NULL
    /\ \E r \in DOMAIN reports : reports[r].status = COMPLETED

\* The rows of the users other than `u` are the same after the step.
OthersUntouched(u) ==
    /\ \A j \in DOMAIN jobs : jobs[j].user_id # u => jobs'[j] = jobs[j]
    /\ \A r \in DOMAIN reports : reports[r].user_id # u => reports'[r] = reports[r]

\* A writing API call of user u leaves every other user's row as it was.
C37_WritesStayInTenant ==
    \A u \in Users :
        (\/ \E ty \in ListTypes, d \in ParamDocs : CreateJob(u, ty, d)
         \/ \E j \in JobIds : CancelJob(u, j)
         \/ \E ids \in JobIdLists, rt \in ReportTypes, f \in OutputFormats :
               CreateReport(u, ids, rt, f))
        => OthersUntouched(u)

\* cancel_job and create_report of user u that name a job of another user
\* raise and leave the tables as they are.
C37_ForeignCallFails ==
    \A u \in Users, j \in DOMAIN jobs :
        jobs[j].user_id # u =>
            /\ cancel_job(jobs, u, j, now).error.error # ""
            /\ cancel_job(jobs, u, j, now).jobs = jobs
            /\ \A ids \in JobIdLists, rid \in ReportIds :
                  (\E i \in DOMAIN ids : ids[i] = j) =>
                      LET res == create_report(jobs, reports, u, ids, "summary",
                                               "PDF", rid, now)
                      IN  /\ res.error.error # ""
                          /\ res.reports = reports
                          /\ ~res.enqueued

\* C37: the writing API calls of a user (create_job, cancel_job,
\* create_report) change no field of a job or report of another user, and a
\* cancel_job or create_report on another user's job fails with every record
\* unchanged.
C37_TenantIsolation == []C37_ForeignCallFails /\ [][C37_WritesStayInTenant]_vars

\* One user has cancelled a job of their own while the other user owns a
\* completed job and a report on it.
C37_Witness ==
    \E j, k \in DOMAIN jobs, r \in DOMAIN reports :
        /\ jobs[j].user_id # jobs[k].user_id
        /\ j \in cancel_ok /\ jobs[j].status = CANCELLED
        /\ jobs[k].status = COMPLETED
        /\ reports[r].user_id = jobs[k].user_id

\* The blob keys that the row of job j, or of report r, records.
JobKeys(j) == {jobs[j].result_s3_key, jobs[j].parameters_s3_key} \ {NoKey}
ReportKeys(r) == {reports[r].s3_key} \ {NoKey}

\* The keys of a job are the two the claim names, and no key is recorded by
\* two jobs, by two reports, or by a job and a report.
C38_KeysDistinct ==
    /\ \A j \in DOMAIN jobs :
          /\ jobs[j].result_s3_key \in
                {NoKey, <<"simulations", jobs[j].user_id, j, "result.json">>}
          /\ jobs[j].parameters_s3_key \in
                {NoKey, <<"simulations", jobs[j].user_id, j, "parameters.json">>}
    /\ \A j, k \in DOMAIN jobs : j # k => JobKeys(j) \cap JobKeys(k) = {}
    /\ \A r, q \in DOMAIN reports : r # q => ReportKeys(r) \cap ReportKeys(q) = {}
    /\ \A j \in DOMAIN jobs, r \in DOMAIN reports : JobKeys(j) \cap ReportKeys(r) = {}

\* save_result writes the one object of its job: every other object,
\* the stored parameters of every job among them, is as before.
C38_SaveWritesOneObject ==
    \A w \in Workers :
        (\E d \in SimResults : SimSaveResult(w, d)) =>
            LET key == <<"simulations", jobs[JobOf(w)].user_id, JobOf(w), "result.json">>
            IN  /\ DOMAIN blob' = DOMAIN blob \cup {key}
                /\ \A k \in DOMAIN blob : k # key => blob'[k] = blob[k]
                /\ \A j \in DOMAIN jobs :
                      jobs[j].parameters_s3_key # NoKey =>
                          blob'[jobs[j].parameters_s3_key] = blob[jobs[j].parameters_s3_key]

C39_FailedCreateWritesNothing ==
    \A r \in Requests :
        CreateJobParams(r, TRUE) =>
            /\ requests'[r].pc = "raised"
            /\ jobs' = jobs /\ blob' = blob /\ queue' = queue

\* The id of a create_job that raised names no row that get_job, list_jobs or
\* get_job_by_id can see, no stored parameters and no message.
C39_FailedCreateInvisible ==
    \A r \in Requests :
        requests[r].pc = "raised" =>
            LET id == requests[r].id
                owner == requests[r].row.user_id
            IN  /\ get_job(jobs, owner, id).error = "NotFound"
                /\ get_job_by_id(jobs, id).error = "NotFound"
                /\ \A page \in list_jobs(jobs, owner, NullStr, NullStr, MaxJobs, 0) :
                      \A i \in DOMAIN page : page[i] # id
                /\ ~exists(blob, build_simulation_key(owner, id, "parameters.json"))
                /\ \A n \in 0..max_retries : queue[Msg("process_simulation", id, n)] = 0
                /\ \A w \in Workers :
                      workers[w].pc # "idle" /\ workers[w].msg.task = "process_simulation"
                         => workers[w].msg.id # id

\* C39: when the upload of oversized parameters fails, create_job fails with
\* no job row committed, so that the new id is visible to no reader and no
\* worker, and with no unit of work enqueued.
C39_CreateAtomicOnStorageFailure ==
    []C39_FailedCreateInvisible /\ [][C39_FailedCreateWritesNothing]_vars

\* A create_job has raised at the upload while another job, created before
\* or after it, is committed and being run.
C39_Witness ==
    /\ \E r \in Requests : requests[r].pc = "raised"
    /\ \E w \in Workers : workers[w].pc = "execute"
    /\ \E j \in DOMAIN jobs : jobs[j].parameters_s3_key # NoKey

====
